---- MODULE Spec2Model ----
(***************************************************************************)
(* Model of the cloud-dr-orchestrator backup tool: the encryption codec    *)
(* (pkg/encryption), the backup pipeline (cmd/orchestrator/backup.go,      *)
(* pkg/backup/postgres.go), the file-set archiver (pkg/backup/files.go),   *)
(* the compression ratio, the tar codec of the database backup, the object *)
(* store gateway (pkg/oracle) and the restore command.                     *)
(*                                                                         *)
(* Strings (paths, patterns) are sequences of one-character strings, so    *)
(* that suffix tests, base names and glob matching are computed as the     *)
(* code computes them.  File contents are sequences of bytes 0..255.       *)
(***************************************************************************)
EXTENDS Integers, Sequences, FiniteSets, TLC

VARIABLES
    fs,      \* encryption codec: the files on disk, path -> content
    last,    \* encryption codec: the call that just returned and its result
    cfg,     \* backup command: flags, environment and sources of the run
    pc,      \* backup command: the statement the run is at
    encryptionKey, \* backup command: the global encryptionKey
    disk,    \* backup command: the output directory and the run's files in it
    perr,    \* backup command: error returned by performPostgresBackup/performFileBackup
    ret,     \* backup command: what RunE returned
    health,  \* metrics: the globalHealth record
    metrics, \* metrics: the backup counters
    trace,   \* backup command: the steps executed so far, in order
    tree,    \* file-set archiver: the source files and directories, path -> kind
    job,     \* file-set archiver: the FileBackup (Sources, ExcludePatterns)
    tarball, \* file-set archiver: what Backup returned and the entries it wrote
    calc,    \* compression ratio: the sizes of a finished backup and the ratio computed from them
    src,     \* tar codec: the file given to compressTarGz
    tgz,     \* tar codec: the .tar.gz file, as the stream of tar entries it decompresses to
    dest,    \* tar codec: the files in the extraction directory, path -> content
    xres,    \* tar codec: what compressTarGz and extractTarGz did and returned
    clock,   \* object store: the wall clock, as a position in Instants
    bucket,  \* object store: the objects of the bucket, key -> local path uploaded
    uploads, \* object store: the uploads that succeeded, in order
    listing, \* object store: what the list call returned
    rcfg,    \* restore command: flags, the operator's answer and what the artifact holds
    rpc,     \* restore command: the statement the run is at
    temp,    \* restore command: the temporary directories of the run
    backupFilePath, \* restore command: the artifact handed to RestorePostgres
    rret,    \* restore command: what runRestore returned
    rtrace,  \* restore command: the steps executed so far, in order
    served,  \* metrics server: the globalHealth record of the serving process
    wall,    \* metrics server: the wall clock, in hours
    recorded,\* metrics server: what has been recorded so far, as the claims speak of it
    reply,   \* metrics server: the answer of /health, when it is the last thing that happened
    environ, \* subprocesses: the environment of the orchestrator process, a list of KEY=value
    pgcfg,   \* subprocesses: the PostgresConfig of the call
    spawned, \* subprocesses: the last command run, its arguments and environment
    shared,  \* concurrent health: the fields of globalHealth
    mu,      \* concurrent health: globalHealth.mu, its writer and its readers
    calls,   \* concurrent health: the call each goroutine is in, its position and locals
    hist,    \* concurrent health: the clock and the updates completed so far, applied one at a time
    outFile, \* file-set archive: the output file, the bytes on disk and the bytes still in the tar and gzip writers
    bstep,   \* file-set archive: the statement FileBackup.Backup is at
    result   \* file-set archive: what FileBackup.Backup returned

cryptoVars == <<fs, last>>
backupVars == <<cfg, pc, encryptionKey, disk, perr, ret, health, metrics, trace>>
archiveVars == <<tree, job, tarball>>
ratioVars == <<calc>>
extractVars == <<src, tgz, dest, xres>>
storeVars == <<clock, bucket, uploads, listing>>
restoreVars == <<rcfg, rpc, temp, backupFilePath, rret, rtrace>>
healthVars == <<served, wall, recorded, reply>>
procVars == <<environ, pgcfg, spawned>>
concVars == <<shared, mu, calls, hist>>
sizeVars == <<outFile, bstep, result>>

vars ==
    <<cryptoVars, backupVars, archiveVars, ratioVars, extractVars, storeVars,
      restoreVars, healthVars, procVars, concVars, sizeVars>>

\* what the actions of one part leave alone: the variables of the other parts
exceptCrypto ==
    <<backupVars, archiveVars, ratioVars, extractVars, storeVars,
      restoreVars, healthVars, procVars, concVars, sizeVars>>
exceptBackup ==
    <<cryptoVars, archiveVars, ratioVars, extractVars, storeVars,
      restoreVars, healthVars, procVars, concVars, sizeVars>>
exceptArchive ==
    <<cryptoVars, backupVars, ratioVars, extractVars, storeVars,
      restoreVars, healthVars, procVars, concVars, sizeVars>>
exceptRatio ==
    <<cryptoVars, backupVars, archiveVars, extractVars, storeVars,
      restoreVars, healthVars, procVars, concVars, sizeVars>>
exceptExtract ==
    <<cryptoVars, backupVars, archiveVars, ratioVars, storeVars,
      restoreVars, healthVars, procVars, concVars, sizeVars>>
exceptStore ==
    <<cryptoVars, backupVars, archiveVars, ratioVars, extractVars,
      restoreVars, healthVars, procVars, concVars, sizeVars>>
exceptRestore ==
    <<cryptoVars, backupVars, archiveVars, ratioVars, extractVars,
      storeVars, healthVars, procVars, concVars, sizeVars>>
exceptHealth ==
    <<cryptoVars, backupVars, archiveVars, ratioVars, extractVars,
      storeVars, restoreVars, procVars, concVars, sizeVars>>
exceptProc ==
    <<cryptoVars, backupVars, archiveVars, ratioVars, extractVars,
      storeVars, restoreVars, healthVars, concVars, sizeVars>>
exceptConc ==
    <<cryptoVars, backupVars, archiveVars, ratioVars, extractVars,
      storeVars, restoreVars, healthVars, procVars, sizeVars>>
exceptSize ==
    <<cryptoVars, backupVars, archiveVars, ratioVars, extractVars,
      storeVars, restoreVars, healthVars, procVars, concVars>>

-----------------------------------------------------------------------------
(* Bounds of the model.                                                    *)

\* longest plaintext file
MaxLen == 1
\* the random source starts its stream at one of 0..MaxRand
MaxRand == 1
\* most --source flags of a file-set backup
MaxSources == 2
\* most --exclude flags of a file-set backup
MaxPatterns == 2
\* largest size of a dump or an archive, in bytes
MaxSize == 5
\* most entries of a tar stream handed to extractTarGz
MaxEntries == 2
\* most uploads to the bucket
MaxUploads == 2

-----------------------------------------------------------------------------
(* Constants of pkg/encryption.                                            *)

KeySize == 32
SaltSize == 32
NonceSize == 12
\* len(".encrypted"), the literal 10 of DecryptFile and IsEncrypted
SuffixLen == 10
\* gcm.Overhead(): the authentication tag appended by Seal
TagSize == 16
\* block size of HMAC-SHA256, to which PBKDF2 pads the password
BlockSize == 64

EncSuffix == <<".", "e", "n", "c", "r", "y", "p", "t", "e", "d">>
DecSuffix == <<".", "d", "e", "c", "r", "y", "p", "t", "e", "d">>

-----------------------------------------------------------------------------
(* Helpers on sequences.                                                   *)

\* s[from:] of Go, with a 0-based offset
Drop(s, n) == SubSeq(s, n + 1, Len(s))
\* s[:n] of Go
Take(s, n) == SubSeq(s, 1, n)

\* all sequences over S of length at most n
RECURSIVE SeqsUpTo(_, _)
SeqsUpTo(S, n) ==
    IF n = 0 THEN {<<>>}
    ELSE LET shorter == SeqsUpTo(S, n - 1)
         IN  shorter \cup {Append(s, x) : s \in {t \in shorter : Len(t) = n - 1}, x \in S}

PlainBytes == {65, 66}
Plains == SeqsUpTo(PlainBytes, MaxLen)

\* the passwords tried: "k", "k" followed by a NUL byte, and "l"
Passwords == {<<107>>, <<107, 0>>, <<108>>}

-----------------------------------------------------------------------------
(* The cryptographic primitives EncryptFile and DecryptFile call.  They    *)
(* are library code; the model keeps their data layout and the structure   *)
(* of their inputs, and replaces the hash and the block cipher by          *)
(* arithmetic that is collision-free on the bounded domain (passwords and  *)
(* plaintexts shorter than TagSize).                                       *)

\* io.ReadFull(rand.Reader, buf): n bytes of the random stream from offset r
RandRead(r, n) == [i \in 1..n |-> (r + i) % 256]

\* HMAC's key preparation inside pbkdf2.Key: a password shorter than the
\* block is padded with zero bytes to the block size
HmacKey(password) ==
    [i \in 1..BlockSize |-> IF i <= Len(password) THEN password[i] ELSE 0]

\* pbkdf2.Key(password, salt, Iterations, KeySize, sha256.New)
DeriveKey(password, salt) ==
    LET hk == HmacKey(password)
    IN  [i \in 1..KeySize |-> (hk[i] + hk[i + KeySize] + salt[i]) % 256]

KeyStream(key, nonce, i) ==
    (key[((i - 1) % KeySize) + 1] + nonce[((i - 1) % NonceSize) + 1] + i) % 256

\* the GCM authentication tag over the ciphertext, keyed by key and nonce
Tag(key, nonce, ct) ==
    [j \in 1..TagSize |->
        (key[j] + key[j + TagSize] + nonce[((j - 1) % NonceSize) + 1]
         + (IF j <= Len(ct) THEN ct[j] ELSE 0) + Len(ct)) % 256]

\* gcm.Seal(dst, nonce, plaintext, nil): dst ++ ciphertext ++ tag
Seal(dst, key, nonce, plaintext) ==
    LET ct == [i \in 1..Len(plaintext) |->
                  (plaintext[i] + KeyStream(key, nonce, i)) % 256]
    IN  dst \o ct \o Tag(key, nonce, ct)

\* gcm.Open(nil, nonce, ciphertext, nil): the plaintext, or an error when the
\* input is shorter than the tag or the tag does not verify
Open(key, nonce, data) ==
    IF Len(data) < TagSize THEN [ok |-> FALSE, plaintext |-> <<>>]
    ELSE LET ct  == Take(data, Len(data) - TagSize)
             tag == Drop(data, Len(data) - TagSize)
         IN  IF tag # Tag(key, nonce, ct) THEN [ok |-> FALSE, plaintext |-> <<>>]
             ELSE [ok |-> TRUE,
                   plaintext |-> [i \in 1..Len(ct) |->
                       (ct[i] + 256 - KeyStream(key, nonce, i)) % 256]]

-----------------------------------------------------------------------------
(* The file system seen by the codec.                                      *)

Exists(files, path) == path \in DOMAIN files

\* os.WriteFile(path, data) that succeeds
WriteFile(files, path, data) ==
    [p \in (DOMAIN files) \cup {path} |-> IF p = path THEN data ELSE files[p]]

\* os.WriteFile that fails: the file was not opened (cut = -1), or it was
\* created/truncated and only the first cut bytes reached it
FailedWrite(files, path, data, cut) ==
    IF cut < 0 THEN files ELSE WriteFile(files, path, Take(data, cut))

WriteCuts(data) == {-1, 0} \cup {n \in {Len(data) \div 2} : n < Len(data)}

-----------------------------------------------------------------------------
(* EncryptFile (pkg/encryption).  fault names the step that fails, "none"  *)
(* when every step succeeds; the result is the error, the returned path    *)
(* and the file system the call leaves behind.                             *)

EncryptFaults == {"none", "read", "salt", "cipher", "gcm", "nonce", "write"}

EncryptedPath(inputPath) == inputPath \o EncSuffix

\* Envelope with the salt left out of the file (the append of line 109 dropped)
Envelope_NoSalt(plaintext, password, r) ==
    LET salt  == RandRead(r, SaltSize)
        key   == DeriveKey(password, salt)
        nonce == RandRead(r + SaltSize, NonceSize)
    IN  Seal(nonce, key, nonce, plaintext)

\* the bytes EncryptFile writes: salt ++ nonce ++ ciphertext ++ tag
Envelope(plaintext, password, r) ==
    LET salt  == RandRead(r, SaltSize)
        key   == DeriveKey(password, salt)
        nonce == RandRead(r + SaltSize, NonceSize)
    IN  salt \o Seal(nonce, key, nonce, plaintext)

\* EncryptFile that creates its output file before the cipher is set up
EncryptFile_CreateFirst(files, inputPath, password, r, fault, cut) ==
    LET failed(e) == [err |-> e, out |-> <<>>, files |-> files]
        created   == WriteFile(files, EncryptedPath(inputPath), <<>>)
    IN  IF fault = "read" \/ ~Exists(files, inputPath) THEN failed("read")
        ELSE IF fault \in {"salt", "cipher", "gcm", "nonce"}
        THEN [err |-> fault, out |-> <<>>, files |-> created]
        ELSE LET encrypted  == Envelope(files[inputPath], password, r)
                 outputPath == EncryptedPath(inputPath)
             IN  IF fault = "write"
                 THEN [err |-> "write", out |-> <<>>,
                       files |-> FailedWrite(created, outputPath, encrypted, cut)]
                 ELSE [err |-> "none", out |-> outputPath,
                       files |-> WriteFile(files, outputPath, encrypted)]

EncryptFile(files, inputPath, password, r, fault, cut) ==
    LET failed(e) == [err |-> e, out |-> <<>>, files |-> files]
    IN  IF fault = "read" \/ ~Exists(files, inputPath) THEN failed("read")
        ELSE IF fault = "salt" THEN failed("salt")
        ELSE IF fault = "cipher" THEN failed("cipher")
        ELSE IF fault = "gcm" THEN failed("gcm")
        ELSE IF fault = "nonce" THEN failed("nonce")
        ELSE LET encrypted  == Envelope(files[inputPath], password, r)
                 outputPath == EncryptedPath(inputPath)
             IN  IF fault = "write"
                 THEN [err |-> "write", out |-> <<>>,
                       files |-> FailedWrite(files, outputPath, encrypted, cut)]
                 ELSE [err |-> "none", out |-> outputPath,
                       files |-> WriteFile(files, outputPath, encrypted)]

-----------------------------------------------------------------------------
(* DecryptFile and IsEncrypted (pkg/encryption).                           *)

IsEncrypted(filePath) ==
    Len(filePath) > SuffixLen /\ Drop(filePath, Len(filePath) - SuffixLen) = EncSuffix

\* DecryptedPath with >= for > in the length test
DecryptedPath_Geq(inputPath) ==
    IF Len(inputPath) >= SuffixLen
       /\ Drop(inputPath, Len(inputPath) - SuffixLen) = EncSuffix
    THEN Take(inputPath, Len(inputPath) - SuffixLen)
    ELSE inputPath \o DecSuffix

DecryptedPath(inputPath) ==
    IF Len(inputPath) > SuffixLen
       /\ Drop(inputPath, Len(inputPath) - SuffixLen) = EncSuffix
    THEN Take(inputPath, Len(inputPath) - SuffixLen)
    ELSE inputPath \o DecSuffix

DecryptFaults == {"none", "read", "cipher", "gcm", "write"}

\* DecryptFile that writes whatever Open returns without looking at its error
DecryptFile_NoAuth(files, inputPath, password, fault, cut) ==
    LET failed(e) == [err |-> e, out |-> <<>>, files |-> files]
    IN  IF fault = "read" \/ ~Exists(files, inputPath) THEN failed("read")
        ELSE LET encrypted == files[inputPath]
             IN  IF Len(encrypted) < SaltSize + NonceSize THEN failed("short")
                 ELSE LET salt       == Take(encrypted, SaltSize)
                          ciphertext == Drop(encrypted, SaltSize)
                          key        == DeriveKey(password, salt)
                          nonce      == Take(ciphertext, NonceSize)
                          opened     == Open(key, nonce, Drop(ciphertext, NonceSize))
                          outputPath == DecryptedPath(inputPath)
                      IN  IF fault \in {"cipher", "gcm"} THEN failed(fault)
                          ELSE IF fault = "write"
                          THEN [err |-> "write", out |-> <<>>,
                                files |-> FailedWrite(files, outputPath,
                                                      opened.plaintext, cut)]
                          ELSE [err |-> "none", out |-> outputPath,
                                files |-> WriteFile(files, outputPath,
                                                    opened.plaintext)]

DecryptFile(files, inputPath, password, fault, cut) ==
    LET failed(e) == [err |-> e, out |-> <<>>, files |-> files]
    IN  IF fault = "read" \/ ~Exists(files, inputPath) THEN failed("read")
        ELSE LET encrypted == files[inputPath]
             IN  IF Len(encrypted) < SaltSize + NonceSize THEN failed("short")
                 ELSE LET salt       == Take(encrypted, SaltSize)
                          ciphertext == Drop(encrypted, SaltSize)
                          key        == DeriveKey(password, salt)
                      IN  IF fault = "cipher" THEN failed("cipher")
                          ELSE IF fault = "gcm" THEN failed("gcm")
                          ELSE IF Len(ciphertext) < NonceSize THEN failed("short")
                          ELSE LET nonce  == Take(ciphertext, NonceSize)
                                   opened == Open(key, nonce, Drop(ciphertext, NonceSize))
                                   outputPath == DecryptedPath(inputPath)
                               IN  IF ~opened.ok THEN failed("auth")
                                   ELSE IF fault = "write"
                                   THEN [err |-> "write", out |-> <<>>,
                                         files |-> FailedWrite(files, outputPath,
                                                               opened.plaintext, cut)]
                                   ELSE [err |-> "none", out |-> outputPath,
                                         files |-> WriteFile(files, outputPath,
                                                             opened.plaintext)]

-----------------------------------------------------------------------------------------------------------------------------------------------------
(* The health record and the backup counters (pkg/metrics).                *)

\* globalHealth as the process starts
InitialHealth ==
    [LastBackupTime |-> 0, LastBackupError |-> "", BackupCount |-> 0, IsHealthy |-> TRUE]

RecordBackupSuccess(h, now) ==
    [LastBackupTime |-> now, LastBackupError |-> "",
     BackupCount |-> h.BackupCount + 1, IsHealthy |-> TRUE]

RecordBackupError(h, now, msg) ==
    [LastBackupTime |-> now, LastBackupError |-> msg,
     BackupCount |-> h.BackupCount, IsHealthy |-> FALSE]

\* BackupSuccess, the three labels of BackupFailure that backup.go uses, and the
\* number of observations of BackupDuration and BackupSize
InitialMetrics ==
    [success |-> 0, backup_failed |-> 0, missing_encryption_key |-> 0,
     encryption_failed |-> 0, durations |-> 0, sizes |-> 0]

-----------------------------------------------------------------------------
(* Values of the variables a specification does not use.                   *)

NoCall == [op |-> "init", in |-> <<>>, pw |-> <<>>, fault |-> "none",
           err |-> "none", out |-> <<>>]

NoError == [msg |-> "", source |-> 0]

NoRun == [type |-> "", encrypt |-> FALSE, keyFlag |-> <<>>, keyEnv |-> <<>>,
          dbName |-> "", sources |-> <<>>, dirExisted |-> FALSE]

EmptyDisk(dir) == [dir |-> dir, dump |-> "absent", tar |-> "absent", enc |-> "absent"]

CryptoIdle == fs = <<>> /\ last = NoCall

NoTarball == [state |-> "none", count |-> 0, entries |-> <<>>, files |-> 0]

ArchiveIdle ==
    /\ tree = <<>>
    /\ job = [Sources |-> <<>>, ExcludePatterns |-> <<>>]
    /\ tarball = NoTarball

BackupIdle ==
    /\ cfg = NoRun /\ pc = "idle" /\ encryptionKey = <<>> /\ disk = EmptyDisk(FALSE)
    /\ perr = NoError /\ ret = NoError
    /\ health = InitialHealth /\ metrics = InitialMetrics /\ trace = <<>>

NoRatio == [fn |-> "none", original |-> 0, size |-> 0,
            pct |-> [class |-> "finite", num |-> 0, den |-> 1], dividedByZero |-> FALSE]

RatioIdle == calc = NoRatio

NoArchiveFile == [state |-> "absent", entries |-> <<>>, complete |-> FALSE]

NoSourceFile == [path |-> <<>>, data |-> <<>>]

NoExtract == [compress |-> "none", extract |-> "none", fault |-> "none",
              err |-> "", path |-> <<>>]

ExtractIdle == src = NoSourceFile /\ tgz = NoArchiveFile /\ dest = <<>> /\ xres = NoExtract

NoListing == [op |-> "none", year |-> 0, month |-> 0, err |-> "", names |-> <<>>]

StoreIdle == clock = 0 /\ bucket = <<>> /\ uploads = <<>> /\ listing = NoListing

NoRestore == [file |-> <<>>, fromCloud |-> <<>>, cloudFlags |-> FALSE, yes |-> FALSE,
              answer |-> <<>>, content |-> ""]

NoTemp == [download |-> "none", extract |-> "none",
           downloadRemoveAll |-> FALSE, extractRemoveAll |-> FALSE]

RestoreIdle ==
    /\ rcfg = NoRestore /\ rpc = "idle" /\ temp = NoTemp
    /\ backupFilePath = <<>> /\ rret = NoError /\ rtrace = <<>>

NoHistory == [last |-> "none", successAt |-> 0, errors |-> 0, resetSince |-> FALSE]

NoReply == [status |-> "none", httpStatus |-> 0]

HealthIdle == served = InitialHealth /\ wall = 0 /\ recorded = NoHistory /\ reply = NoReply

NoPgConfig == [Host |-> <<>>, Port |-> 0, User |-> <<>>, Database |-> <<>>, Password |-> <<>>]

NoCmd == [name |-> "none", args |-> <<>>, env |-> <<>>, parent |-> <<>>]

ProcIdle == environ = <<>> /\ pgcfg = NoPgConfig /\ spawned = NoCmd

Unlocked == [writer |-> 0, readers |-> {}]

NotCalled == [op |-> "none", pc |-> 0, at |-> 0, count |-> 0, snap |-> InitialHealth]

NoUpdates == [now |-> 0, last |-> InitialHealth, left |-> {}, successes |-> 0, resets |-> 0]

ConcIdle == shared = InitialHealth /\ mu = Unlocked /\ calls = <<>> /\ hist = NoUpdates

NoOutFile == [exists |-> FALSE, size |-> 0, pending |-> 0, entries |-> 0]

NoResult == [err |-> "none", Size |-> 0]

SizeIdle == outFile = NoOutFile /\ bstep = "idle" /\ result = NoResult

\* the other parts at rest, for the initial states of one part
IdleExceptCrypto == BackupIdle /\ ArchiveIdle /\ RatioIdle /\ ExtractIdle /\ StoreIdle /\ RestoreIdle /\ HealthIdle /\ ProcIdle /\ ConcIdle /\ SizeIdle
IdleExceptBackup == CryptoIdle /\ ArchiveIdle /\ RatioIdle /\ ExtractIdle /\ StoreIdle /\ RestoreIdle /\ HealthIdle /\ ProcIdle /\ ConcIdle /\ SizeIdle
IdleExceptArchive == CryptoIdle /\ BackupIdle /\ RatioIdle /\ ExtractIdle /\ StoreIdle /\ RestoreIdle /\ HealthIdle /\ ProcIdle /\ ConcIdle /\ SizeIdle
IdleExceptRatio == CryptoIdle /\ BackupIdle /\ ArchiveIdle /\ ExtractIdle /\ StoreIdle /\ RestoreIdle /\ HealthIdle /\ ProcIdle /\ ConcIdle /\ SizeIdle
IdleExceptExtract == CryptoIdle /\ BackupIdle /\ ArchiveIdle /\ RatioIdle /\ StoreIdle /\ RestoreIdle /\ HealthIdle /\ ProcIdle /\ ConcIdle /\ SizeIdle
IdleExceptStore == CryptoIdle /\ BackupIdle /\ ArchiveIdle /\ RatioIdle /\ ExtractIdle /\ RestoreIdle /\ HealthIdle /\ ProcIdle /\ ConcIdle /\ SizeIdle
IdleExceptRestore == CryptoIdle /\ BackupIdle /\ ArchiveIdle /\ RatioIdle /\ ExtractIdle /\ StoreIdle /\ HealthIdle /\ ProcIdle /\ ConcIdle /\ SizeIdle
IdleExceptHealth == CryptoIdle /\ BackupIdle /\ ArchiveIdle /\ RatioIdle /\ ExtractIdle /\ StoreIdle /\ RestoreIdle /\ ProcIdle /\ ConcIdle /\ SizeIdle
IdleExceptProc == CryptoIdle /\ BackupIdle /\ ArchiveIdle /\ RatioIdle /\ ExtractIdle /\ StoreIdle /\ RestoreIdle /\ HealthIdle /\ ConcIdle /\ SizeIdle
IdleExceptConc == CryptoIdle /\ BackupIdle /\ ArchiveIdle /\ RatioIdle /\ ExtractIdle /\ StoreIdle /\ RestoreIdle /\ HealthIdle /\ ProcIdle /\ SizeIdle
IdleExceptSize == CryptoIdle /\ BackupIdle /\ ArchiveIdle /\ RatioIdle /\ ExtractIdle /\ StoreIdle /\ RestoreIdle /\ HealthIdle /\ ProcIdle /\ ConcIdle

-----------------------------------------------------------------------------
(* The codec as a state machine.  A behaviour is one use of the codec: the *)
(* disk holds a plaintext file and possibly an artifact that EncryptFile   *)
(* produced earlier and that was stored under a name of the operator's     *)
(* choice (download --output); EncryptFile may be called once, and then    *)
(* DecryptFile once.                                                       *)

PathA == <<"a">>
PathB == <<"b">>
\* a path no file is stored under
PathMissing == <<"m">>
\* names an earlier artifact may be stored under
StoredNames == {PathB, EncSuffix}

CryptoInit ==
    /\ \E p \in Plains :
          \/ fs = [x \in {PathA} |-> p]
          \/ \E name \in StoredNames, k \in Passwords :
                fs = [x \in {PathA, name} |->
                         IF x = PathA THEN p ELSE Envelope(p, k, 0)]
    /\ last = NoCall
    /\ IdleExceptCrypto

Encrypt ==
    \E path \in {PathA, PathB, PathMissing}, pw \in Passwords, r \in 0..MaxRand,
       fault \in EncryptFaults :
      \E cut \in (IF fault = "write" /\ Exists(fs, path)
                  THEN WriteCuts(Envelope(fs[path], pw, r)) ELSE {-1}) :
        LET res == EncryptFile(fs, path, pw, r, fault, cut)
        IN  /\ last.op = "init"
            /\ fs' = res.files
            /\ last' = [op |-> "encrypt", in |-> path, pw |-> pw, fault |-> fault,
                        err |-> res.err, out |-> res.out]
            /\ UNCHANGED exceptCrypto

Decrypt ==
    \E path \in (DOMAIN fs) \cup {PathMissing}, pw \in Passwords,
       fault \in DecryptFaults :
      \E cut \in (IF fault = "write" THEN {-1, 0} ELSE {-1}) :
        LET res == DecryptFile(fs, path, pw, fault, cut)
        IN  /\ last.op \in {"init", "encrypt"}
            /\ fs' = res.files
            /\ last' = [op |-> "decrypt", in |-> path, pw |-> pw, fault |-> fault,
                        err |-> res.err, out |-> res.out]
            /\ UNCHANGED exceptCrypto

CryptoNext == Encrypt \/ Decrypt

SpecCrypto == CryptoInit /\ [][CryptoNext]_vars

-----------------------------------------------------------------------------
(* Properties of the encryption codec.                                     *)

\* the file read by the call that just returned is what EncryptFile writes for
\* plaintext p under password k
ReadEnvelopeOf(files, p, k) ==
    /\ Exists(files, last.in)
    /\ \E r \in 0..MaxRand : files[last.in] = Envelope(p, k, r)

\* C1: DecryptFile with password K on the file EncryptFile wrote for plaintext
\* P under K succeeds, when no file access fails, and the file it writes holds
\* exactly P.
Thm_C1_RoundTrip ==
    \A p \in Plains, k \in Passwords :
        (last.op = "decrypt" /\ last.pw = k /\ ReadEnvelopeOf(fs, p, k))
        => /\ last.err \notin {"short", "auth"}
           /\ last.fault = "none" => last.err = "none"
           /\ last.err = "none" => (Exists(fs, last.out) /\ fs[last.out] = p)

\* C1 witness: a non-empty plaintext encrypted by EncryptFile in this behaviour
\* and decrypted back with the same password.
Wit_C1_RoundTrip ==
    /\ last.op = "decrypt" /\ last.err = "none"
    /\ last.in = EncryptedPath(PathA) /\ last.out = PathA
    /\ fs[PathA] # <<>>
    /\ \E p \in Plains : ReadEnvelopeOf(fs, p, last.pw)

\* C2 as stated: DecryptFile with any password K2 other than the K1 the file
\* was encrypted under never succeeds.
Cex_C2_AnyOtherPassword ==
    \A p \in Plains, k1 \in Passwords :
        (last.op = "decrypt" /\ last.pw # k1 /\ ReadEnvelopeOf(fs, p, k1))
        => last.err # "none"

\* C2 amended: when K2 and K1 differ after HMAC's zero padding of the password,
\* DecryptFile with K2 returns no path and writes nothing, and its error is the
\* generic wrong-password-or-corrupted one unless a file access failed first.
Thm_C2_WrongPassword ==
    [][\A p \in Plains, k1 \in Passwords :
          (last'.op = "decrypt" /\ last # last'
           /\ HmacKey(last'.pw) # HmacKey(k1)
           /\ Exists(fs, last'.in)
           /\ \E r \in 0..MaxRand : fs[last'.in] = Envelope(p, k1, r))
          => /\ last'.err # "none"
             /\ last'.out = <<>>
             /\ fs' = fs
             /\ last'.fault = "none" => last'.err = "auth"]_vars

\* C2 witness: a wrong password met the generic error on an artifact EncryptFile
\* wrote in this behaviour.
Wit_C2_WrongPassword ==
    /\ last.op = "decrypt" /\ last.err = "auth" /\ last.fault = "none"
    /\ last.in = EncryptedPath(PathA)
    /\ \E p \in Plains, k1 \in Passwords :
          HmacKey(k1) # HmacKey(last.pw) /\ ReadEnvelopeOf(fs, p, k1)

\* path = stem ++ ".encrypted"
StemOf(path, stem) == path = stem \o EncSuffix

Stems(path) == {Take(path, n) : n \in 0..Len(path)}

\* C3 as stated: a successful DecryptFile strips ".encrypted" from every input
\* path that ends with it, the path that is the suffix alone included, and
\* appends ".decrypted" to every other.
Cex_C3_OutputPath ==
    (last.op = "decrypt" /\ last.err = "none")
    => IF \E stem \in Stems(last.in) : StemOf(last.in, stem)
       THEN StemOf(last.in, last.out)
       ELSE last.out = last.in \o DecSuffix

\* C3 amended: ".encrypted" is stripped only from a path that is longer than
\* the suffix; the path that is the suffix alone gets ".decrypted" appended,
\* like a path without the suffix.
Thm_C3_OutputPath ==
    (last.op = "decrypt" /\ last.err = "none")
    => IF \E stem \in Stems(last.in) : stem # <<>> /\ StemOf(last.in, stem)
       THEN StemOf(last.in, last.out)
       ELSE last.out = last.in \o DecSuffix

\* C3 witness: a successful DecryptFile of the file named ".encrypted".
Wit_C3_OutputPath ==
    last.op = "decrypt" /\ last.err = "none" /\ last.in = EncSuffix

\* C4: an EncryptFile call that fails in reading, salt generation, cipher
\* set-up or nonce generation returns an error and no path, and leaves every
\* file, the one at its output path included, as it was.
Thm_C4_NoOutputBeforeSeal ==
    [][(last'.op = "encrypt" /\ last # last'
        /\ (last'.fault \notin {"none", "write"} \/ last'.err = "read"))
       => /\ last'.err \notin {"none", "write"}
          /\ last'.out = <<>>
          /\ fs' = fs]_vars

\* C4 witness: EncryptFile failed while generating the nonce and there is no
\* file at its output path.
Wit_C4_NoOutputBeforeSeal ==
    /\ last.op = "encrypt" /\ last.err = "nonce"
    /\ Exists(fs, last.in)
    /\ ~Exists(fs, EncryptedPath(last.in))

-----------------------------------------------------------------------------
(* The backup command (cmd/orchestrator/backup.go) with DumpPostgres       *)
(* (pkg/backup/postgres.go) and FileBackup (pkg/backup/files.go).  A       *)
(* behaviour is one invocation of the command, in a fresh process.  A file *)
(* of the run is "absent", "partial" (created, not all of its content      *)
(* written) or "complete".  Every system call and subprocess the code      *)
(* checks may fail.                                                        *)

BackupTypes == {"postgres", "files", "directory", "mysql"}
FileTypes == {"files", "directory"}

\* --encryption-key / BACKUP_ENCRYPTION_KEY: unset, or "k"
Keys == {<<>>, <<107>>}

\* the --source flags of a run: TRUE for a path that exists
SourceLists == SeqsUpTo(BOOLEAN, MaxSources)

RunInputs ==
    {c \in [type : BackupTypes, encrypt : BOOLEAN, keyFlag : Keys, keyEnv : Keys,
            dbName : {"", "myapp"}, sources : SourceLists, dirExisted : BOOLEAN] :
        /\ c.type # "postgres" => c.dbName = ""
        /\ c.type \notin FileTypes => c.sources = <<>>}

Err(m) == [msg |-> m, source |-> 0]
Ok == [msg |-> "ok", source |-> 0]

\* the wall-clock time of the run
Now == 1

Did(step, ok) == Append(trace, [step |-> step, ok |-> ok])
Steps == {trace[i].step : i \in 1..Len(trace)}

BackupInit ==
    /\ cfg \in RunInputs
    /\ pc = "start"
    /\ encryptionKey = cfg.keyFlag
    /\ disk = EmptyDisk(cfg.dirExisted)
    /\ perr = NoError
    /\ ret = NoError
    /\ health = InitialHealth
    /\ metrics = InitialMetrics
    /\ trace = <<>>
    /\ IdleExceptBackup

\* RunE up to the switch on the backup type
RunStart ==
    /\ pc = "start"
    /\ \E absOk \in BOOLEAN :
        /\ trace' = Did("start", absOk /\ cfg.type \in {"postgres"} \cup FileTypes)
        /\ IF ~absOk
           THEN /\ ret' = Err("invalid output directory")
                /\ pc' = "returned"
                /\ UNCHANGED encryptionKey
           ELSE /\ encryptionKey' = IF cfg.encrypt /\ encryptionKey = <<>>
                                    THEN cfg.keyEnv ELSE encryptionKey
                /\ IF cfg.type = "postgres" THEN pc' = "pg.start" /\ UNCHANGED ret
                   ELSE IF cfg.type \in FileTypes THEN pc' = "fb.start" /\ UNCHANGED ret
                   ELSE /\ ret' = Err("unsupported backup type")
                        /\ pc' = "returned"
    /\ UNCHANGED <<cfg, disk, perr, health, metrics>>
    /\ UNCHANGED exceptBackup

\* a step of performPostgresBackup or performFileBackup that returns the error e
Fails(step, e) ==
    /\ perr' = e
    /\ pc' = "report"
    /\ trace' = Did(step, FALSE)

\* a step that succeeds and goes on to the statement at next
Goes(step, next) ==
    /\ pc' = next
    /\ trace' = Did(step, TRUE)
    /\ UNCHANGED perr

PostgresStart ==
    /\ pc = "pg.start"
    /\ IF cfg.dbName = ""
       THEN Fails("pg.start", Err("--db-name is required for postgres backup"))
       ELSE Goes("pg.start", "pg.mkdir")
    /\ UNCHANGED <<cfg, encryptionKey, disk, ret, health, metrics>>
    /\ UNCHANGED exceptBackup

\* os.MkdirAll(outputDir) of DumpPostgres
PgMkdir ==
    /\ pc = "pg.mkdir"
    /\ \E ok \in BOOLEAN :
        IF ok THEN Goes("pg.mkdir", "pg.dump") /\ disk' = [disk EXCEPT !.dir = TRUE]
        ELSE Fails("pg.mkdir", Err("failed to create output directory"))
             /\ UNCHANGED disk
    /\ UNCHANGED <<cfg, encryptionKey, ret, health, metrics>>
    /\ UNCHANGED exceptBackup

\* runPgDump with the dump tool exiting nonzero and yet treated as a success
PgDump_IgnoreExit ==
    /\ pc = "pg.dump"
    /\ \E exit \in {0, 1}, left \in {"absent", "partial"} :
        /\ disk' = [disk EXCEPT !.dump = IF exit = 0 THEN "complete" ELSE left]
        /\ pc' = "pg.statdump"
        /\ trace' = Did("pg.dump", exit = 0)
        /\ UNCHANGED perr
    /\ UNCHANGED <<cfg, encryptionKey, ret, health, metrics>>
    /\ UNCHANGED exceptBackup

\* Step 1 of DumpPostgres: runPgDump; a failing dump tool leaves no dump file or
\* a partial one
PgDump ==
    /\ pc = "pg.dump"
    /\ \E exit \in {0, 1}, left \in {"absent", "partial"} :
        IF exit = 0
        THEN Goes("pg.dump", "pg.statdump") /\ disk' = [disk EXCEPT !.dump = "complete"]
        ELSE Fails("pg.dump", Err("pg_dump failed"))
             /\ disk' = [disk EXCEPT !.dump = left]
    /\ UNCHANGED <<cfg, encryptionKey, ret, health, metrics>>
    /\ UNCHANGED exceptBackup

PgStatDump ==
    /\ pc = "pg.statdump"
    /\ \E ok \in BOOLEAN :
        IF ok THEN Goes("pg.statdump", "pg.compress")
        ELSE Fails("pg.statdump", Err("failed to stat dump file"))
    /\ UNCHANGED <<cfg, encryptionKey, disk, ret, health, metrics>>
    /\ UNCHANGED exceptBackup

\* what compressTarGz leaves of its output file: it fails before os.Create
\* ("open"), in os.Create ("create") or while writing ("write"); it returns nil
\* with everything flushed ("ok") or with a deferred Close having failed unseen
\* ("flush")
CompressOutcomes == {"ok", "flush", "open", "create", "write"}

CompressTarGz(out, tar) ==
    CASE out = "ok" -> "complete"
      [] out \in {"flush", "write"} -> "partial"
      [] OTHER -> tar

\* os.Remove(path): the file is gone when it succeeds
Remove(status, ok) == IF ok THEN "absent" ELSE status

\* Step 2 of DumpPostgres: compressTarGz, and the removal of the dump when it fails
PgCompress ==
    /\ pc = "pg.compress"
    /\ \E out \in CompressOutcomes, rm \in BOOLEAN :
        IF out \in {"ok", "flush"}
        THEN /\ Goes("pg.compress", "pg.stattar")
             /\ disk' = [disk EXCEPT !.tar = CompressTarGz(out, disk.tar)]
        ELSE /\ Fails("pg.compress", Err("compression failed"))
             /\ disk' = [disk EXCEPT !.tar = CompressTarGz(out, disk.tar),
                                     !.dump = Remove(disk.dump, rm)]
    /\ UNCHANGED <<cfg, encryptionKey, ret, health, metrics>>
    /\ UNCHANGED exceptBackup

\* compressTarGz that is tried again when its output cannot be statted
PgStatTar_Retry ==
    /\ pc = "pg.stattar"
    /\ \E ok \in BOOLEAN :
        IF ok THEN Goes("pg.stattar", "pg.rmdump")
        ELSE Goes("pg.stattar", "pg.compress")
    /\ UNCHANGED <<cfg, encryptionKey, disk, ret, health, metrics>>
    /\ UNCHANGED exceptBackup

PgStatTar ==
    /\ pc = "pg.stattar"
    /\ \E ok \in BOOLEAN :
        IF ok THEN Goes("pg.stattar", "pg.rmdump")
        ELSE Fails("pg.stattar", Err("failed to stat compressed file"))
    /\ UNCHANGED <<cfg, encryptionKey, disk, ret, health, metrics>>
    /\ UNCHANGED exceptBackup

\* the removal of the dump and the return of the result
PgRemoveDump ==
    /\ pc = "pg.rmdump"
    /\ \E rm \in BOOLEAN :
        /\ disk' = [disk EXCEPT !.dump = Remove(disk.dump, rm)]
        /\ Goes("pg.rmdump", "report")
    /\ UNCHANGED <<cfg, encryptionKey, ret, health, metrics>>
    /\ UNCHANGED exceptBackup

\* FileBackup.Validate that never looks at the sources
Validate_NoCheck(sources) ==
    IF Len(sources) = 0 THEN Err("no sources specified for backup") ELSE NoError

\* FileBackup.Validate: the first source that does not exist is named
Validate(sources) ==
    IF Len(sources) = 0 THEN Err("no sources specified for backup")
    ELSE LET missing == {i \in 1..Len(sources) : ~sources[i]}
         IN  IF missing = {} THEN NoError
             ELSE [msg |-> "source does not exist",
                   source |-> CHOOSE i \in missing : \A j \in missing : i <= j]

\* performFileBackup up to the output file name
FileStart ==
    /\ pc = "fb.start"
    /\ IF Len(cfg.sources) = 0
       THEN Fails("fb.start", Err("--source is required for files backup"))
       ELSE IF Validate(cfg.sources) # NoError
       THEN Fails("fb.start", Validate(cfg.sources))
       ELSE Goes("fb.start", "fb.mkdir")
    /\ UNCHANGED <<cfg, encryptionKey, disk, ret, health, metrics>>
    /\ UNCHANGED exceptBackup

\* os.MkdirAll(outputDir) of performFileBackup
FbMkdir ==
    /\ pc = "fb.mkdir"
    /\ \E ok \in BOOLEAN :
        IF ok THEN Goes("fb.mkdir", "fb.count") /\ disk' = [disk EXCEPT !.dir = TRUE]
        ELSE Fails("fb.mkdir", Err("failed to create output directory"))
             /\ UNCHANGED disk
    /\ UNCHANGED <<cfg, encryptionKey, ret, health, metrics>>
    /\ UNCHANGED exceptBackup

\* FileBackup.Backup: countFiles
FbCount ==
    /\ pc = "fb.count"
    /\ \E ok \in BOOLEAN :
        IF ok THEN Goes("fb.count", "fb.create")
        ELSE Fails("fb.count", Err("failed to count files"))
    /\ UNCHANGED <<cfg, encryptionKey, disk, ret, health, metrics>>
    /\ UNCHANGED exceptBackup

\* FileBackup.Backup: os.Create(outputPath)
FbCreate ==
    /\ pc = "fb.create"
    /\ \E ok \in BOOLEAN :
        IF ok THEN Goes("fb.create", "fb.walk") /\ disk' = [disk EXCEPT !.tar = "partial"]
        ELSE Fails("fb.create", Err("failed to create output file"))
             /\ UNCHANGED disk
    /\ UNCHANGED <<cfg, encryptionKey, ret, health, metrics>>
    /\ UNCHANGED exceptBackup

\* FileBackup.Backup: the walk over the sources that fills the archive
FbWalk ==
    /\ pc = "fb.walk"
    /\ \E ok \in BOOLEAN :
        IF ok THEN Goes("fb.walk", "fb.stat")
        ELSE Fails("fb.walk", Err("failed to walk source"))
    /\ UNCHANGED <<cfg, encryptionKey, disk, ret, health, metrics>>
    /\ UNCHANGED exceptBackup

\* FileBackup.Backup: os.Stat(outputPath) and the return, at which the deferred
\* Close calls flush the archive
FbStat ==
    /\ pc = "fb.stat"
    /\ \E ok \in BOOLEAN, flushed \in BOOLEAN :
        /\ disk' = [disk EXCEPT !.tar = IF flushed THEN "complete" ELSE "partial"]
        /\ IF ok THEN Goes("fb.stat", "report")
           ELSE Fails("fb.stat", Err("failed to stat output file"))
    /\ UNCHANGED <<cfg, encryptionKey, ret, health, metrics>>
    /\ UNCHANGED exceptBackup

\* RunE after the backup: the failure or success metrics
Report ==
    /\ pc = "report"
    /\ IF perr # NoError
       THEN /\ metrics' = [metrics EXCEPT !.backup_failed = @ + 1]
            /\ health' = RecordBackupError(health, Now, perr.msg)
            /\ ret' = perr
            /\ pc' = "returned"
            /\ trace' = Did("report", FALSE)
       ELSE \E statOk \in BOOLEAN :
            /\ metrics' = [metrics EXCEPT !.durations = @ + 1, !.success = @ + 1,
                                          !.sizes = IF statOk THEN @ + 1 ELSE @]
            /\ health' = RecordBackupSuccess(health, Now)
            /\ trace' = Did("report", TRUE)
            /\ IF cfg.encrypt THEN pc' = "encrypt" /\ UNCHANGED ret
               ELSE pc' = "returned" /\ ret' = Ok
    /\ UNCHANGED <<cfg, encryptionKey, disk, perr>>
    /\ UNCHANGED exceptBackup

\* the archive as EncryptFile finds it
ArtifactPath == <<"t">>
ArtifactFiles(tar) ==
    IF tar = "absent" THEN <<>>
    ELSE [x \in {ArtifactPath} |-> IF tar = "complete" THEN <<65, 66>> ELSE <<65>>]

\* RunE: the encryption of the archive
EncryptStep ==
    /\ pc = "encrypt"
    /\ IF encryptionKey = <<>>
       THEN /\ metrics' = [metrics EXCEPT !.missing_encryption_key = @ + 1]
            /\ ret' = Err("encryption key required when --encrypt is enabled")
            /\ pc' = "returned"
            /\ trace' = Did("encrypt", FALSE)
            /\ UNCHANGED disk
       ELSE \E fault \in EncryptFaults, cut \in {-1, 0} :
            LET res == EncryptFile(ArtifactFiles(disk.tar), ArtifactPath,
                                   encryptionKey, 0, fault, cut)
            IN  IF res.err # "none"
                THEN /\ metrics' = [metrics EXCEPT !.encryption_failed = @ + 1]
                     /\ ret' = Err("encryption failed")
                     /\ pc' = "returned"
                     /\ trace' = Did("encrypt", FALSE)
                     /\ disk' = [disk EXCEPT !.enc =
                            IF Exists(res.files, EncryptedPath(ArtifactPath))
                            THEN "partial" ELSE @]
                ELSE /\ disk' = [disk EXCEPT !.enc = "complete"]
                     /\ pc' = "rmplain"
                     /\ trace' = Did("encrypt", TRUE)
                     /\ UNCHANGED <<metrics, ret>>
    /\ UNCHANGED <<cfg, encryptionKey, perr, health>>
    /\ UNCHANGED exceptBackup

\* RunE: os.Remove(result.Path), whose failure is a warning, and the return
RemovePlain ==
    /\ pc = "rmplain"
    /\ \E rm \in BOOLEAN :
        /\ disk' = [disk EXCEPT !.tar = Remove(disk.tar, rm)]
        /\ trace' = Did("rmplain", rm)
    /\ ret' = Ok
    /\ pc' = "returned"
    /\ UNCHANGED <<cfg, encryptionKey, perr, health, metrics>>
    /\ UNCHANGED exceptBackup

BackupNext ==
    \/ RunStart
    \/ PostgresStart \/ PgMkdir \/ PgDump \/ PgStatDump \/ PgCompress
    \/ PgStatTar \/ PgRemoveDump
    \/ FileStart \/ FbMkdir \/ FbCount \/ FbCreate \/ FbWalk \/ FbStat
    \/ Report \/ EncryptStep \/ RemovePlain

SpecBackup == BackupInit /\ [][BackupNext]_vars

-----------------------------------------------------------------------------
(* Properties of the backup command.                                       *)

Returned == pc = "returned"
Failed == Returned /\ ret # Ok
Succeeded == Returned /\ ret = Ok

\* C5 as stated: when a backup run has ended in failure, none of the files it
\* wrote (dump, archive, encrypted archive) is left in the output directory.
Cex_C5_FailureLeavesNoFile ==
    Failed => disk.dump = "absent" /\ disk.tar = "absent" /\ disk.enc = "absent"

\* C6: once the dump tool has exited nonzero, the archiving step is never
\* started, no archive file of the run exists, and the run ends in failure.
Thm_C6_FailedDumpNoArchive ==
    (\E i \in 1..Len(trace) : trace[i] = [step |-> "pg.dump", ok |-> FALSE])
    => /\ "pg.compress" \notin Steps
       /\ disk.tar = "absent"
       /\ ~Succeeded

\* C6 witness: a run of the database backup has returned after its dump failed.
Wit_C6_FailedDumpNoArchive ==
    /\ Failed /\ cfg.type = "postgres"
    /\ \E i \in 1..Len(trace) : trace[i] = [step |-> "pg.dump", ok |-> FALSE]
    /\ disk.dump = "partial"

\* C7 as stated: a run with encryption requested that ends successfully leaves
\* the encrypted artifact and not the unencrypted archive.
Cex_C7_NoPlaintextLeft ==
    (Succeeded /\ cfg.encrypt) => disk.enc = "complete" /\ disk.tar = "absent"

\* C8: in a file-set backup with a source that does not exist, the run creates
\* neither the output directory nor an archive, and performFileBackup fails with
\* the error that names a missing source.
Thm_C8_SourcesCheckedFirst ==
    (cfg.type \in FileTypes /\ \E i \in 1..Len(cfg.sources) : ~cfg.sources[i])
    => /\ disk = EmptyDisk(cfg.dirExisted)
       /\ ("fb.start" \in Steps)
          => /\ perr.msg = "source does not exist"
             /\ perr.source \in 1..Len(cfg.sources)
             /\ ~cfg.sources[perr.source]
             /\ pc \in {"report", "returned"}
             /\ Returned => ret = perr

\* C8 witness: a file-set backup whose second source is missing has returned,
\* with the output directory still not there.
Wit_C8_SourcesCheckedFirst ==
    /\ Failed /\ cfg.type = "files" /\ cfg.sources = <<TRUE, FALSE>>
    /\ ret.source = 2 /\ ~cfg.dirExisted /\ ~disk.dir

\* C9 as stated: when the command returns the missing-encryption-key error, no
\* output directory, dump or archive has been made and neither the health
\* record nor a counter other than the missing-key one has changed.
Cex_C9_MissingKeyBeforeEffects ==
    (Returned /\ ret.msg = "encryption key required when --encrypt is enabled")
    => /\ disk = EmptyDisk(cfg.dirExisted)
       /\ health = InitialHealth
       /\ metrics.success = 0

-----------------------------------------------------------------------------
(* The file-set archiver (pkg/backup/files.go): the walk over the sources  *)
(* with the exclude patterns.                                              *)

Sep == "/"

\* filepath.Match for patterns of literal characters, '*' and '?': '*' matches
\* any run of characters other than the separator, '?' one such character
RECURSIVE Match(_, _)
Match(pattern, name) ==
    IF pattern = <<>> THEN name = <<>>
    ELSE IF Head(pattern) = "*"
    THEN \/ Match(Tail(pattern), name)
         \/ name # <<>> /\ Head(name) # Sep /\ Match(pattern, Tail(name))
    ELSE IF Head(pattern) = "?"
    THEN name # <<>> /\ Head(name) # Sep /\ Match(Tail(pattern), Tail(name))
    ELSE name # <<>> /\ Head(name) = Head(pattern) /\ Match(Tail(pattern), Tail(name))

\* index of the last separator of a path, 0 when it has none
LastSep(path) ==
    LET at == {i \in 1..Len(path) : path[i] = Sep}
    IN  IF at = {} THEN 0 ELSE CHOOSE i \in at : \A j \in at : j <= i

\* a path without its trailing separators
RECURSIVE StripSeps(_)
StripSeps(path) ==
    IF path # <<>> /\ path[Len(path)] = Sep THEN StripSeps(Take(path, Len(path) - 1))
    ELSE path

\* filepath.Base that leaves the path as it is
Base_WholePath(path) == path

\* filepath.Base: the last element of the path, trailing separators removed
\* first; "." for the empty path, the separator for a path of separators
Base(path) ==
    IF path = <<>> THEN <<".">>
    ELSE LET p == StripSeps(path)
         IN  IF p = <<>> THEN <<Sep>> ELSE Drop(p, LastSep(p))

\* the directory a path lies in
Dir(path) == Take(path, LastSep(path) - 1)

\* shouldExclude that tries the full path only
shouldExclude_FullPathOnly(patterns, path) ==
    \E i \in 1..Len(patterns) : Match(patterns[i], path)

\* FileBackup.shouldExclude
shouldExclude(patterns, path) ==
    \E i \in 1..Len(patterns) :
        \/ Match(patterns[i], path)
        \/ Match(patterns[i], Base(path))

\* the order of os.ReadDir: by name, byte by byte
Alphabet ==
    <<"-", ".", "/", "0", "1", "2", "3", "4", "5", "6", "7", "8", "9",
      "a", "b", "c", "d", "e", "f", "g", "h", "i", "j", "k", "l", "m",
      "n", "o", "p", "q", "r", "s", "t", "u", "v", "w", "x", "y", "z">>
Rank(c) == CHOOSE i \in 1..Len(Alphabet) : Alphabet[i] = c

RECURSIVE Less(_, _)
Less(a, b) ==
    IF a = <<>> THEN b # <<>>
    ELSE IF b = <<>> THEN FALSE
    ELSE IF Head(a) = Head(b) THEN Less(Tail(a), Tail(b))
    ELSE Rank(Head(a)) < Rank(Head(b))

RECURSIVE Sorted(_)
Sorted(paths) ==
    IF paths = {} THEN <<>>
    ELSE LET first == CHOOSE p \in paths : \A q \in paths \ {p} : Less(p, q)
         IN  <<first>> \o Sorted(paths \ {first})

Children(files, dir) == {p \in DOMAIN files : LastSep(p) > 0 /\ Dir(p) = dir}

\* filepath.Walk(path, fn) with the callback of Backup: an excluded entry is
\* skipped, with everything below it when it is a directory (SkipDir); any
\* other entry gets a tar header, and a directory is then descended into
RECURSIVE Walk(_, _, _), WalkAll(_, _, _)
Walk(files, patterns, path) ==
    IF shouldExclude(patterns, path) THEN <<>>
    ELSE <<[name |-> path, dir |-> files[path] = "dir"]>>
         \o (IF files[path] = "dir"
             THEN WalkAll(files, patterns, Sorted(Children(files, path)))
             ELSE <<>>)

WalkAll(files, patterns, paths) ==
    IF paths = <<>> THEN <<>>
    ELSE Walk(files, patterns, Head(paths)) \o WalkAll(files, patterns, Tail(paths))

\* number of regular files among the entries
FileCount(entries) == Cardinality({i \in 1..Len(entries) : ~entries[i].dir})

-----------------------------------------------------------------------------
(* The archiver as a state machine: a source tree, a FileBackup over it,   *)
(* and one call of Backup.                                                 *)

PathD == <<"d">>
PathTmp == <<"d", "/", "t", "m", "p">>
FileALog == <<"d", "/", "a", ".", "l", "o", "g">>
FileBTxt == <<"d", "/", "b", ".", "t", "x", "t">>
FileXTxt == <<"d", "/", "t", "m", "p", "/", "x", ".", "t", "x", "t">>
FileCLog == <<"d", "/", "t", "m", "p", "/", "c", ".", "l", "o", "g">>

\* the source trees: directory d, with any of a.log and b.txt, and possibly the
\* directory d/tmp with any of x.txt and c.log
Trees ==
    {[p \in {PathD} \cup top \cup sub |-> IF p \in {PathD, PathTmp} THEN "dir" ELSE "file"] :
        top \in SUBSET {FileALog, FileBTxt},
        sub \in {{}} \cup {{PathTmp} \cup s : s \in SUBSET {FileXTxt, FileCLog}}}

\* the --exclude patterns tried
PatternChoices ==
    {<<"*", ".", "l", "o", "g">>,
     <<"t", "m", "p">>,
     <<"t", "m", "p", "/", "*">>,
     <<"d", "/", "t", "m", "p">>,
     <<"d", "/", "?", ".", "t", "x", "t">>}

\* the --source lists tried
SourceChoices ==
    {<<PathD>>, <<PathTmp>>, <<FileALog>>, <<PathTmp, FileBTxt>>}

ArchiveInit ==
    /\ tree \in Trees
    /\ \E s \in SourceChoices, x \in SeqsUpTo(PatternChoices, MaxPatterns) :
        /\ Len(s) <= MaxSources
        /\ \A i \in 1..Len(s) : s[i] \in DOMAIN tree
        /\ job = [Sources |-> s, ExcludePatterns |-> x]
    /\ tarball = NoTarball
    /\ IdleExceptArchive

\* FileBackup.Backup: countFiles, then the walk that writes the archive
FileBackupRun ==
    /\ tarball.state = "none"
    /\ LET entries == WalkAll(tree, job.ExcludePatterns, job.Sources)
       IN  tarball' = [state |-> "written", count |-> FileCount(entries),
                       entries |-> entries, files |-> FileCount(entries)]
    /\ UNCHANGED <<tree, job>>
    /\ UNCHANGED exceptArchive

ArchiveNext == FileBackupRun

SpecArchive == ArchiveInit /\ [][ArchiveNext]_vars

-----------------------------------------------------------------------------
(* Properties of the archiver.                                             *)

\* some pattern matches the full path or the base name
Matched(path) ==
    \E i \in 1..Len(job.ExcludePatterns) :
        \/ Match(job.ExcludePatterns[i], path)
        \/ Match(job.ExcludePatterns[i], Base(path))

\* path is source or lies below it
Under(source, path) ==
    Len(path) >= Len(source) /\ Take(path, Len(source)) = source
    /\ (Len(path) > Len(source) => path[Len(source) + 1] = Sep)

\* the entries of the tree on the way from source down to path, both included
OnTheWay(source, path) ==
    {q \in DOMAIN tree : Under(source, q) /\ Under(q, path)}

Archived == {tarball.entries[i].name : i \in 1..Len(tarball.entries)}

\* C10: after Backup, an entry below a source is missing from the archive
\* exactly when a pattern matches the full path or the base name of the entry
\* or of a directory above it within the source; with "*.log" alone over d
\* holding a.log and b.txt, b.txt is archived and a.log is not.
Thm_C10_ExcludedIffMatched ==
    tarball.state = "written"
    => /\ \A p \in DOMAIN tree :
            (\E i \in 1..Len(job.Sources) : Under(job.Sources[i], p))
            => (p \notin Archived
                <=> \A i \in 1..Len(job.Sources) :
                        Under(job.Sources[i], p)
                        => \E q \in OnTheWay(job.Sources[i], p) : Matched(q))
       /\ \A p \in Archived :
            \E i \in 1..Len(job.Sources) : Under(job.Sources[i], p)
       /\ (job = [Sources |-> <<PathD>>, ExcludePatterns |-> <<<<"*", ".", "l", "o", "g">>>>]
           /\ {FileALog, FileBTxt} \subseteq DOMAIN tree)
          => FileBTxt \in Archived /\ FileALog \notin Archived

\* C10 witness: "*.log" over d with a.log, b.txt and a tmp directory holding
\* c.log: the archive holds d, b.txt and tmp, and neither log.
Wit_C10_ExcludedIffMatched ==
    /\ tarball.state = "written"
    /\ job = [Sources |-> <<PathD>>, ExcludePatterns |-> <<<<"*", ".", "l", "o", "g">>>>]
    /\ DOMAIN tree = {PathD, FileALog, FileBTxt, PathTmp, FileCLog}
    /\ Archived = {PathD, FileBTxt, PathTmp}

\* C11: over d holding b.txt and tmp/x.txt, a backup of d with the single
\* exclude pattern "tmp", and likewise with "tmp/*", archives no entry at or
\* below d/tmp and archives b.txt.
Cex_C11_TmpPruned ==
    (/\ tarball.state = "written"
     /\ job.Sources = <<PathD>>
     /\ job.ExcludePatterns \in {<<(<<"t", "m", "p">>)>>, <<(<<"t", "m", "p", "/", "*">>)>>}
     /\ {FileBTxt, FileXTxt} \subseteq DOMAIN tree)
    => /\ \A p \in Archived : ~Under(PathTmp, p)
       /\ FileBTxt \in Archived

-----------------------------------------------------------------------------
(* The compression ratio of a finished backup (pkg/backup/backup.go,       *)
(* postgres.go, files.go).  A float64 is a ratio of integers, +Inf or NaN. *)

Finite(n, d) == [class |-> "finite", num |-> n, den |-> d]
PosInf == [class |-> "+Inf", num |-> 1, den |-> 0]
NaN == [class |-> "NaN", num |-> 0, den |-> 0]

\* float64(a) / float64(b) for sizes a, b >= 0: a division by zero does not
\* panic, it gives +Inf, or NaN for 0/0
FDiv(a, b) ==
    IF b # 0 THEN Finite(a, b)
    ELSE IF a = 0 THEN NaN ELSE PosInf

\* x * k for k > 0
FTimes(x, k) == IF x.class = "finite" THEN Finite(x.num * k, x.den) ELSE x

\* 1.0 - x
FOneMinus(x) == IF x.class = "finite" THEN Finite(x.den - x.num, x.den) ELSE NaN

Sizes == 0..MaxSize

\* DumpPostgres: compressionRatio
DumpRatio(compressedSize, originalSize) == FTimes(FDiv(compressedSize, originalSize), 100)

\* FileBackup.Backup: compressionPct
FilesRatio(size, totalSize) ==
    IF totalSize > 0 THEN FTimes(FOneMinus(FDiv(size, totalSize)), 100) ELSE Finite(0, 1)

\* Result.CalculateCompressionPct
CalculateCompressionPct(r) ==
    IF r.OriginalSize = 0 THEN Finite(0, 1)
    ELSE FTimes(FOneMinus(FDiv(r.Size, r.OriginalSize)), 100)

\* a backup has been written: its original and compressed sizes
RatioInit ==
    /\ \E o \in Sizes, s \in Sizes :
        calc = [NoRatio EXCEPT !.original = o, !.size = s]
    /\ IdleExceptRatio

\* DumpPostgres after the two os.Stat calls; the archive was closed by
\* compressTarGz, so it holds at least the gzip header
DumpPostgresRatio ==
    /\ calc.fn = "none"
    /\ calc.size >= 1
    /\ calc' = [calc EXCEPT !.fn = "DumpPostgres",
                            !.pct = DumpRatio(calc.size, calc.original),
                            !.dividedByZero = (calc.original = 0)]
    /\ UNCHANGED exceptRatio

\* FileBackup.Backup after os.Stat(outputPath)
FileBackupRatio ==
    /\ calc.fn = "none"
    /\ calc' = [calc EXCEPT !.fn = "Backup",
                            !.pct = FilesRatio(calc.size, calc.original)]
    /\ UNCHANGED exceptRatio

\* Result.CalculateCompressionPct on a Result with these sizes
ResultRatio ==
    /\ calc.fn = "none"
    /\ calc' = [calc EXCEPT !.fn = "CalculateCompressionPct",
                            !.pct = CalculateCompressionPct(
                                        [Size |-> calc.size, OriginalSize |-> calc.original])]
    /\ UNCHANGED exceptRatio

RatioNext == DumpPostgresRatio \/ FileBackupRatio \/ ResultRatio

SpecRatio == RatioInit /\ [][RatioNext]_vars

\* C12: on every backup path, an original size of 0 gives a compression
\* ratio of 0, and nothing was divided by the zero size.
Cex_C12_ZeroSizeRatio ==
    (calc.fn # "none" /\ calc.original = 0)
    => calc.pct = Finite(0, 1) /\ ~calc.dividedByZero

-----------------------------------------------------------------------------
(* The tar codec of the database backup (pkg/backup/postgres.go):          *)
(* compressTarGz and extractTarGz.  A .tar.gz file is the stream of tar    *)
(* entries it decompresses to; a stream that was cut short (not flushed,   *)
(* not downloaded whole) ends in an unexpected EOF, and its last entry may *)
(* hold fewer bytes than its header announces.                             *)

\* the elements of a path between its separators
RECURSIVE SplitPath(_)
SplitPath(path) ==
    LET at == {i \in 1..Len(path) : path[i] = Sep}
    IN  IF at = {} THEN <<path>>
        ELSE LET i == CHOOSE k \in at : \A j \in at : k <= j
             IN  <<Take(path, i - 1)>> \o SplitPath(Drop(path, i))

\* filepath.Clean, element by element: empty elements and "." are dropped,
\* ".." removes the element before it, is dropped at the root and is kept
\* at the start of a relative path
RECURSIVE CleanElements(_, _, _)
CleanElements(elems, rooted, kept) ==
    IF elems = <<>> THEN kept
    ELSE LET e == Head(elems)
             rest == Tail(elems)
         IN  IF e = <<>> \/ e = <<".">> THEN CleanElements(rest, rooted, kept)
             ELSE IF e # <<".", ".">> THEN CleanElements(rest, rooted, Append(kept, e))
             ELSE IF kept # <<>> /\ kept[Len(kept)] # <<".", ".">>
             THEN CleanElements(rest, rooted, Take(kept, Len(kept) - 1))
             ELSE IF rooted THEN CleanElements(rest, rooted, kept)
             ELSE CleanElements(rest, rooted, Append(kept, e))

RECURSIVE JoinElements(_)
JoinElements(elems) ==
    IF elems = <<>> THEN <<>>
    ELSE IF Len(elems) = 1 THEN elems[1]
    ELSE elems[1] \o <<Sep>> \o JoinElements(Tail(elems))

\* filepath.Clean
Clean(path) ==
    LET rooted == path # <<>> /\ path[1] = Sep
        kept == JoinElements(CleanElements(SplitPath(path), rooted, <<>>))
    IN  IF rooted THEN <<Sep>> \o kept
        ELSE IF kept = <<>> THEN <<".">> ELSE kept

\* filepath.Join(dir, name): the non-empty ones joined by a separator, cleaned
Join(dir, name) ==
    IF dir = <<>> /\ name = <<>> THEN <<>>
    ELSE IF dir = <<>> THEN Clean(name)
    ELSE IF name = <<>> THEN Clean(dir)
    ELSE Clean(dir \o <<Sep>> \o name)

TarEntry(name, type, size, data) ==
    [name |-> name, type |-> type, size |-> size, data |-> data]

\* tar.Writer.WriteHeader: a header whose Typeflag was left at its zero value
\* is written as a regular file
WriteHeader(h) == IF h.type = "regA" THEN [h EXCEPT !.type = "reg"] ELSE h

\* compressTarGz that leaves the content out of the archive
compressTarGz_HeaderOnly(inputPath, data, outcome, cut) ==
    [err |-> "",
     out |-> [state |-> "present", complete |-> TRUE,
              entries |-> <<WriteHeader(TarEntry(Base(inputPath), "regA", Len(data), <<>>))>>]]

\* compressTarGz(inputPath, outputPath) on a file holding data.  outcome is
\* one of CompressOutcomes, the step that fails; "flush" is a failure of the
\* deferred Close calls, which is not reported.  cut is how much reached the
\* disk before a failure of WriteHeader, io.Copy or Close: -1 for nothing, else
\* the header and that many bytes of content.
compressTarGz(inputPath, data, outcome, cut) ==
    LET header == WriteHeader(TarEntry(Base(inputPath), "regA", Len(data), data))
        partial == [state |-> "present", complete |-> FALSE,
                    entries |-> IF cut < 0 THEN <<>>
                                ELSE <<[header EXCEPT !.data = Take(data, cut)]>>]
    IN  CASE outcome = "open" ->
                [err |-> "failed to open input file", out |-> NoArchiveFile]
          [] outcome = "create" ->
                [err |-> "failed to create output file", out |-> NoArchiveFile]
          [] outcome = "write" ->
                [err |-> IF cut < 0 THEN "failed to write tar header"
                         ELSE "failed to write file to tar",
                 out |-> partial]
          [] outcome = "flush" ->
                [err |-> "", out |-> partial]
          [] OTHER ->
                [err |-> "",
                 out |-> [state |-> "present", complete |-> TRUE, entries |-> <<header>>]]

\* extractTarGz that keeps the entry's directories in the output path
TargetPath_FullName(destDir, name) == Join(destDir, name)

\* extractTarGz: targetPath
TargetPath(destDir, name) == Join(destDir, Base(name))

NoFault == [kind |-> "none", at |-> 0]

\* the directories that exist when extractTarGz is called: destDir and the
\* directories above it; os.Create of a directory fails
IsDirectory(path, destDir) ==
    \/ path = Clean(destDir)
    \/ path = Join(destDir, <<".", ".">>)
    \/ path = <<Sep>>

\* the failures of extractTarGz that do not come from the stream: the file
\* cannot be opened, is not gzip, or the output file of entry "at" cannot be
\* created or written
ExtractFaults(entries) ==
    {NoFault, [kind |-> "open", at |-> 0], [kind |-> "gzip", at |-> 0]}
    \cup {[kind |-> k, at |-> i] : k \in {"create", "copy"},
                                   i \in {j \in 1..Len(entries) : entries[j].type = "reg"}}

\* the loop of extractTarGz from entry i on; extractedFile is "" as <<>>
RECURSIVE ExtractLoop(_, _, _, _, _, _)
ExtractLoop(stream, destDir, files, extractedFile, fault, i) ==
    IF i > Len(stream.entries)
    THEN IF ~stream.complete
         THEN [err |-> "failed to read tar header", path |-> <<>>, files |-> files]
         ELSE IF extractedFile = <<>>
         THEN [err |-> "no files found in archive", path |-> <<>>, files |-> files]
         ELSE [err |-> "", path |-> extractedFile, files |-> files]
    ELSE LET header == stream.entries[i]
             targetPath == TargetPath(destDir, header.name)
         IN  IF header.type # "reg"
             THEN ExtractLoop(stream, destDir, files, extractedFile, fault, i + 1)
             ELSE IF fault = [kind |-> "create", at |-> i] \/ IsDirectory(targetPath, destDir)
             THEN [err |-> "failed to create output file", path |-> <<>>, files |-> files]
             ELSE IF fault = [kind |-> "copy", at |-> i]
             THEN [err |-> "failed to extract file", path |-> <<>>,
                   files |-> WriteFile(files, targetPath, <<>>)]
             ELSE IF Len(header.data) < header.size
             THEN [err |-> "failed to extract file", path |-> <<>>,
                   files |-> WriteFile(files, targetPath, header.data)]
             ELSE ExtractLoop(stream, destDir, WriteFile(files, targetPath, header.data),
                              targetPath, fault, i + 1)

\* extractTarGz(tarGzPath, destDir)
extractTarGz(stream, destDir, files, fault) ==
    IF stream.state = "absent" \/ fault.kind = "open"
    THEN [err |-> "failed to open tar.gz file", path |-> <<>>, files |-> files]
    ELSE IF fault.kind = "gzip"
    THEN [err |-> "failed to create gzip reader", path |-> <<>>, files |-> files]
    ELSE ExtractLoop(stream, destDir, files, <<>>, fault, 1)

-----------------------------------------------------------------------------
(* The tar codec as a state machine: either a source file that             *)
(* compressTarGz archives, or a .tar.gz file that came from elsewhere, and *)
(* one call of extractTarGz into an empty temporary directory.             *)

DestDir == <<"x">>
NameS == <<"s">>
NameQ == <<"q">>
NameDS == <<"d", "/", "s">>

\* entry names that point out of the destination directory or at no file:
\* /s, ../q, .., the empty name, /, d/ and .
HostileNames ==
    {<<"/", "s">>, <<".", ".", "/", "q">>, <<".", ".">>, <<>>, <<"/">>, <<"d", "/">>, <<".">>}

SourceFiles == {[path |-> p, data |-> d] : p \in {NameS, NameDS}, d \in Plains}

\* the entries of a .tar.gz file that came from elsewhere
GivenEntries ==
    {TarEntry(n, "reg", Len(d), d) : n \in {NameS, NameQ, NameDS}, d \in Plains}
    \cup {TarEntry(n, ty, 0, <<>>) : n \in {NameS, NameQ, NameDS}, ty \in {"dir", "symlink"}}
    \cup {TarEntry(n, "reg", 1, <<65>>) : n \in HostileNames}

GivenStreams ==
    {[state |-> "present", entries |-> e, complete |-> c] :
        e \in SeqsUpTo(GivenEntries, MaxEntries), c \in BOOLEAN}

ExtractInit ==
    /\ \/ src \in SourceFiles /\ tgz = NoArchiveFile
       \/ src = NoSourceFile /\ tgz \in GivenStreams
    /\ dest = <<>>
    /\ xres = NoExtract
    /\ IdleExceptExtract

\* DumpPostgres: compressTarGz(dumpFilePath, tarGzFilePath)
Compress ==
    /\ xres.compress = "none" /\ xres.extract = "none"
    /\ src # NoSourceFile
    /\ \E outcome \in CompressOutcomes, cut \in -1..Len(src.data) :
        LET r == compressTarGz(src.path, src.data, outcome, cut)
        IN  /\ tgz' = r.out
            /\ xres' = [xres EXCEPT !.compress = outcome, !.err = r.err]
    /\ UNCHANGED <<src, dest>>
    /\ UNCHANGED exceptExtract

\* RestorePostgres: extractTarGz(backupFile, tempDir)
Extract ==
    /\ xres.extract = "none"
    /\ src = NoSourceFile \/ xres.compress # "none"
    /\ \E fault \in ExtractFaults(tgz.entries) :
        LET r == extractTarGz(tgz, DestDir, dest, fault)
        IN  /\ dest' = r.files
            /\ xres' = [xres EXCEPT !.extract = "done", !.fault = fault.kind,
                                    !.err = r.err, !.path = r.path]
    /\ UNCHANGED <<src, tgz>>
    /\ UNCHANGED exceptExtract

ExtractNext == Compress \/ Extract

SpecExtract == ExtractInit /\ [][ExtractNext]_vars

-----------------------------------------------------------------------------
(* Properties of the tar codec.                                            *)

\* positions of the regular-file entries of the stream
Regs == {i \in 1..Len(tgz.entries) : tgz.entries[i].type = "reg"}

\* where the entry at position i belongs in the extraction directory
Target(i) == DestDir \o <<"/">> \o Base(tgz.entries[i].name)

LastOf(S) == CHOOSE i \in S : \A j \in S : j <= i

\* the base name of entry i can name a file: it is not ".", ".." or the root,
\* which os.Create refuses as directories
Creatable(i) == Base(tgz.entries[i].name) \notin {<<".">>, <<".", ".">>, <<Sep>>}

\* C13: extractTarGz writes regular-file entries only, each under its base
\* name in the destination directory, later entries over earlier ones; on
\* success it returns the path of the last regular file of the stream; an
\* intact stream with no regular-file entry gives an error, no path, no file,
\* and one whose regular entries all have a base name that can name a file
\* is extracted without error when nothing else fails.
Thm_C13_ExtractRegularFiles ==
    xres.extract = "done"
    => /\ DOMAIN dest \subseteq {Target(i) : i \in Regs}
       /\ xres.err = ""
          => /\ Regs # {}
             /\ DOMAIN dest = {Target(i) : i \in Regs}
             /\ \A p \in DOMAIN dest :
                    dest[p] = tgz.entries[LastOf({i \in Regs : Target(i) = p})].data
             /\ xres.path = Target(LastOf(Regs))
       /\ xres.err # "" => xres.path = <<>>
       /\ (tgz.state = "present" /\ tgz.complete /\ xres.fault = "none"
              /\ \A i \in Regs : Creatable(i))
          => IF Regs = {}
             THEN xres.err = "no files found in archive" /\ dest = <<>>
             ELSE xres.err = ""

\* C13 witness: a directory entry followed by the regular file d/s: only
\* x/s is written and returned.
Wit_C13_ExtractRegularFiles ==
    /\ xres.extract = "done" /\ xres.err = ""
    /\ Len(tgz.entries) = 2
    /\ tgz.entries[1].type = "dir"
    /\ tgz.entries[2] = TarEntry(NameDS, "reg", 1, <<65>>)
    /\ dest = (DestDir \o <<"/">> \o NameS) :> <<65>>
    /\ xres.path = DestDir \o <<"/">> \o NameS

\* C14: extracting the archive that compressTarGz built from one file gives
\* exactly one file, named by the source's base name, with the source's
\* content; this is so whenever both calls return without error, and both do
\* when nothing fails.
Thm_C14_SingleFileRoundTrip ==
    (xres.compress \in {"ok", "flush"} /\ xres.extract = "done")
    => /\ (xres.compress = "ok" /\ xres.fault = "none") => xres.err = ""
       /\ xres.err = ""
          => /\ dest = (DestDir \o <<"/">> \o Base(src.path)) :> src.data
             /\ xres.path = DestDir \o <<"/">> \o Base(src.path)

\* C14 witness: d/s holding one byte, archived and extracted to x/s.
Wit_C14_SingleFileRoundTrip ==
    /\ xres.compress = "ok" /\ xres.extract = "done" /\ xres.err = ""
    /\ src = [path |-> NameDS, data |-> <<65>>]
    /\ dest = (DestDir \o <<"/">> \o NameS) :> <<65>>

-----------------------------------------------------------------------------
(* The object store gateway (pkg/oracle/upload.go, list.go) and the upload *)
(* command (cmd/orchestrator/upload.go).                                   *)

Digits == <<"0", "1", "2", "3", "4", "5", "6", "7", "8", "9">>

\* fmt's %d of n >= 0
RECURSIVE Itoa(_)
Itoa(n) == IF n < 10 THEN <<Digits[n + 1]>> ELSE Itoa(n \div 10) \o <<Digits[(n % 10) + 1]>>

\* fmt's %d in place of %02d
Pad2_Unpadded(n) == Itoa(n)

\* fmt's %02d of n >= 0
Pad2(n) == IF n < 10 THEN <<"0">> \o Itoa(n) ELSE Itoa(n)

BackupsPrefix == <<"b", "a", "c", "k", "u", "p", "s", "/">>

\* UploadBackup: objectName for the time now and the file name
ObjectName(now, filename) ==
    BackupsPrefix \o Itoa(now.year) \o <<"/">> \o Pad2(now.month) \o <<"/">> \o filename

UploadFaults == {"none", "open", "put"}

\* Client.UploadFile(ctx, localPath, objectName): the bucket afterwards
UploadFile(objects, localPath, objectName, fault) ==
    IF fault = "open"
    THEN [err |-> "failed to open file", key |-> <<>>, objects |-> objects]
    ELSE LET name == IF objectName = <<>> THEN Base(localPath) ELSE objectName
         IN  IF fault = "put"
             THEN [err |-> "failed to upload file to Object Storage", key |-> <<>>,
                   objects |-> objects]
             ELSE [err |-> "", key |-> name, objects |-> WriteFile(objects, name, localPath)]

\* Client.UploadBackup(ctx, backupPath) at wall-clock time now
UploadBackup(objects, backupPath, now, fault) ==
    UploadFile(objects, backupPath, ObjectName(now, Base(backupPath)), fault)

RunUploadFaults == {"missing", "client"} \cup UploadFaults

\* runUpload with --file and --object-name
runUpload(objects, file, objectNameFlag, now, fault) ==
    IF fault = "missing"
    THEN [err |-> "file does not exist", key |-> <<>>, objects |-> objects]
    ELSE IF fault = "client"
    THEN [err |-> "failed to create OCI client", key |-> <<>>, objects |-> objects]
    ELSE IF objectNameFlag # <<>>
    THEN UploadFile(objects, file, objectNameFlag, fault)
    ELSE UploadBackup(objects, file, now, fault)

HasPrefix(s, prefix) == Len(s) >= Len(prefix) /\ Take(s, Len(prefix)) = prefix

ListOutcomes == {"ok", "error", "names only"}

\* Client.ListObjects(ctx, prefix).  The service answers with the objects
\* whose name starts with prefix, in the order of their names; when its
\* summaries carry the name only, *obj.Size is a nil dereference.
ListObjects(objects, prefix, outcome) ==
    LET response == Sorted({k \in DOMAIN objects : HasPrefix(k, prefix)})
    IN  IF outcome = "error" THEN [err |-> "failed to list objects", names |-> <<>>]
        ELSE IF outcome = "names only" /\ response # <<>>
        THEN [err |-> "panic", names |-> <<>>]
        ELSE [err |-> "", names |-> response]

\* Client.ListBackups(ctx)
ListBackups(objects, outcome) == ListObjects(objects, BackupsPrefix, outcome)

\* ListBackupsByDate with the prefix of the year alone
DatePrefix_YearOnly(year, month) == BackupsPrefix \o Itoa(year) \o <<"/">>

\* ListBackupsByDate: prefix
DatePrefix(year, month) ==
    BackupsPrefix \o Itoa(year) \o <<"/">> \o Pad2(month) \o <<"/">>

\* Client.ListBackupsByDate(ctx, year, month)
ListBackupsByDate(objects, year, month, outcome) ==
    ListObjects(objects, DatePrefix(year, month), outcome)

-----------------------------------------------------------------------------
(* The object store as a state machine: the clock advances, files are      *)
(* uploaded by the upload command or by a direct call of UploadFile, and   *)
(* the bucket is listed once.                                              *)

\* the moments at which uploads happen
Instants ==
    <<[year |-> 2025, month |-> 9, day |-> 30],
      [year |-> 2025, month |-> 12, day |-> 9],
      [year |-> 2025, month |-> 12, day |-> 10],
      [year |-> 2026, month |-> 12, day |-> 1]>>

FileBackup1209 == <<"t", "/", "b", "a", "c", "k", "u", "p", "-", "2", "0", "2", "5", "1", "2", "0", "9", ".", "t", "a", "r", ".", "g", "z">>
FileAGz == <<"a", ".", "g", "z">>
LocalPaths == {FileBackup1209, FileAGz}

\* the --object-name values tried
ExplicitNames ==
    {<<"b", "a", "c", "k", "u", "p", "s", "/", "2", "0", "2", "5", "/", "1", "1", "/", "a", ".", "g", "z">>,
     <<"b", "a", "c", "k", "u", "p", "s", "/", "2", "0", "2", "6", "/", "1", "2", "/", "a", ".", "g", "z">>}

StoreInit ==
    /\ clock = 1
    /\ bucket = <<>>
    /\ uploads = <<>>
    /\ listing = NoListing
    /\ IdleExceptStore

\* time passes
Tick ==
    /\ listing.op = "none"
    /\ clock < Len(Instants)
    /\ clock' = clock + 1
    /\ UNCHANGED <<bucket, uploads, listing>>
    /\ UNCHANGED exceptStore

Uploaded(via, file, objectName, r) ==
    IF r.err # "" THEN uploads
    ELSE Append(uploads, [via |-> via, file |-> file, objectName |-> objectName,
                          key |-> r.key, at |-> clock])

\* orchestrator upload --file ... [--object-name ...]
RunUpload ==
    /\ listing.op = "none"
    /\ Len(uploads) < MaxUploads
    /\ \E file \in LocalPaths, name \in {<<>>} \cup ExplicitNames, fault \in RunUploadFaults :
        LET r == runUpload(bucket, file, name, Instants[clock], fault)
        IN  /\ bucket' = r.objects
            /\ uploads' = Uploaded("runUpload", file, name, r)
    /\ UNCHANGED <<clock, listing>>
    /\ UNCHANGED exceptStore

\* a caller of the package calls Client.UploadFile itself
CallUploadFile ==
    /\ listing.op = "none"
    /\ Len(uploads) < MaxUploads
    /\ \E file \in LocalPaths, name \in {<<>>} \cup ExplicitNames, fault \in UploadFaults :
        LET r == UploadFile(bucket, file, name, fault)
        IN  /\ bucket' = r.objects
            /\ uploads' = Uploaded("UploadFile", file, name, r)
    /\ UNCHANGED <<clock, listing>>
    /\ UNCHANGED exceptStore

CallListBackups ==
    /\ listing.op = "none"
    /\ \E outcome \in ListOutcomes :
        LET r == ListBackups(bucket, outcome)
        IN  listing' = [op |-> "ListBackups", year |-> 0, month |-> 0,
                        err |-> r.err, names |-> r.names]
    /\ UNCHANGED <<clock, bucket, uploads>>
    /\ UNCHANGED exceptStore

CallListBackupsByDate ==
    /\ listing.op = "none"
    /\ \E year \in {2025, 2026}, month \in {9, 11, 12}, outcome \in ListOutcomes :
        LET r == ListBackupsByDate(bucket, year, month, outcome)
        IN  listing' = [op |-> "ListBackupsByDate", year |-> year, month |-> month,
                        err |-> r.err, names |-> r.names]
    /\ UNCHANGED <<clock, bucket, uploads>>
    /\ UNCHANGED exceptStore

StoreNext ==
    \/ Tick
    \/ RunUpload
    \/ CallUploadFile
    \/ CallListBackups
    \/ CallListBackupsByDate

SpecStore == StoreInit /\ [][StoreNext]_vars

-----------------------------------------------------------------------------
(* Properties of the object store.                                         *)

\* the key prefix of a year and month, written out
DatedPrefix(year, month) ==
    CASE year = 2025 /\ month = 9 -> <<"b", "a", "c", "k", "u", "p", "s", "/", "2", "0", "2", "5", "/", "0", "9", "/">>
      [] year = 2025 /\ month = 11 -> <<"b", "a", "c", "k", "u", "p", "s", "/", "2", "0", "2", "5", "/", "1", "1", "/">>
      [] year = 2025 /\ month = 12 -> <<"b", "a", "c", "k", "u", "p", "s", "/", "2", "0", "2", "5", "/", "1", "2", "/">>
      [] year = 2026 /\ month = 9 -> <<"b", "a", "c", "k", "u", "p", "s", "/", "2", "0", "2", "6", "/", "0", "9", "/">>
      [] year = 2026 /\ month = 11 -> <<"b", "a", "c", "k", "u", "p", "s", "/", "2", "0", "2", "6", "/", "1", "1", "/">>
      [] year = 2026 /\ month = 12 -> <<"b", "a", "c", "k", "u", "p", "s", "/", "2", "0", "2", "6", "/", "1", "2", "/">>

\* the file name of a local path, written out
FileNameOf(path) ==
    IF path = FileBackup1209 THEN <<"b", "a", "c", "k", "u", "p", "-", "2", "0", "2", "5", "1", "2", "0", "9", ".", "t", "a", "r", ".", "g", "z">> ELSE FileAGz

\* the dated key an upload of u's file at u's time should get
DatedKey(u) ==
    DatedPrefix(Instants[u.at].year, Instants[u.at].month) \o FileNameOf(u.file)

\* C15: every upload made without an explicit object key is stored under
\* backups/<year>/<2-digit month>/<base name> of the time of the call;
\* backup-20251209.tar.gz uploaded on 2025-12-09 is stored under
\* backups/2025/12/backup-20251209.tar.gz.
Cex_C15_DatedKeyWhenAbsent ==
    \A i \in 1..Len(uploads) :
        uploads[i].objectName = <<>>
        => /\ uploads[i].key = DatedKey(uploads[i])
           /\ uploads[i].key \in DOMAIN bucket

\* uploads whose key UploadBackup computed
Computed(i) == uploads[i].via = "runUpload" /\ uploads[i].objectName = <<>>

\* C16 as stated: of two uploads with computed keys, the key of the one made
\* at the earlier time does not sort after the key of the later one.
Cex_C16_KeysChronological ==
    \A i, j \in 1..Len(uploads) :
        (Computed(i) /\ Computed(j) /\ uploads[i].at < uploads[j].at)
        => ~Less(uploads[j].key, uploads[i].key)

\* the calendar month of upload i is before that of upload j
MonthBefore(i, j) ==
    LET a == Instants[uploads[i].at]
        b == Instants[uploads[j].at]
    IN  a.year < b.year \/ (a.year = b.year /\ a.month < b.month)

SameMonth(i, j) == ~MonthBefore(i, j) /\ ~MonthBefore(j, i)

\* C16 amended: of two uploads with computed keys made in different calendar
\* months, the key of the earlier month sorts before the key of the later
\* month; within one month the keys sort as the file names do, whatever the
\* order of the uploads.
Thm_C16_KeysChronologicalByMonth ==
    \A i, j \in 1..Len(uploads) :
        (Computed(i) /\ Computed(j))
        => /\ MonthBefore(i, j) => Less(uploads[i].key, uploads[j].key)
           /\ SameMonth(i, j)
              => (Less(uploads[i].key, uploads[j].key)
                  <=> Less(FileNameOf(uploads[i].file), FileNameOf(uploads[j].file)))

\* C16 witness: backup-20251209.tar.gz uploaded in September 2025 and a.gz in
\* December 2025: the September key sorts first although its file name sorts
\* last.
Wit_C16_KeysChronologicalByMonth ==
    /\ Len(uploads) = 2
    /\ Computed(1) /\ Computed(2)
    /\ uploads[1].file = FileBackup1209 /\ Instants[uploads[1].at].month = 9
    /\ uploads[2].file = FileAGz /\ Instants[uploads[2].at].month = 12
    /\ Less(uploads[1].key, uploads[2].key)

Listed == {listing.names[i] : i \in 1..Len(listing.names)}

\* C17: ListBackupsByDate(y, m) returns only keys that start with
\* backups/<y>/<2-digit m>/; for (2025, 12) it returns no key under
\* backups/2025/11/ or backups/2026/12/; ListBackups returns, when it
\* succeeds, exactly the objects whose key starts with backups/.
Thm_C17_ListByPrefix ==
    /\ listing.op = "ListBackupsByDate"
       => /\ Listed \subseteq DOMAIN bucket
          /\ \A k \in Listed : HasPrefix(k, DatedPrefix(listing.year, listing.month))
          /\ (listing.year = 2025 /\ listing.month = 12)
             => \A k \in Listed : /\ ~HasPrefix(k, DatedPrefix(2025, 11))
                                  /\ ~HasPrefix(k, DatedPrefix(2026, 12))
    /\ listing.op = "ListBackups"
       => /\ Listed \subseteq {k \in DOMAIN bucket : HasPrefix(k, <<"b", "a", "c", "k", "u", "p", "s", "/">>)}
          /\ listing.err = ""
             => Listed = {k \in DOMAIN bucket : HasPrefix(k, <<"b", "a", "c", "k", "u", "p", "s", "/">>)}

\* C17 witness: the bucket holds a key of November 2025 and a key of
\* December 2025; the listing for (2025, 12) returns the December key alone.
Wit_C17_ListByPrefix ==
    /\ listing.op = "ListBackupsByDate" /\ listing.year = 2025 /\ listing.month = 12
    /\ DOMAIN bucket = {<<"b", "a", "c", "k", "u", "p", "s", "/", "2", "0", "2", "5", "/", "1", "1", "/", "a", ".", "g", "z">>,
                        <<"b", "a", "c", "k", "u", "p", "s", "/", "2", "0", "2", "5", "/", "1", "2", "/", "b", "a", "c", "k", "u", "p", "-", "2", "0", "2", "5", "1", "2", "0", "9", ".", "t", "a", "r", ".", "g", "z">>}
    /\ listing.names = <<<<"b", "a", "c", "k", "u", "p", "s", "/", "2", "0", "2", "5", "/", "1", "2", "/", "b", "a", "c", "k", "u", "p", "-", "2", "0", "2", "5", "1", "2", "0", "9", ".", "t", "a", "r", ".", "g", "z">>>>

-----------------------------------------------------------------------------
(* The restore command (cmd/orchestrator/restore.go) with RestorePostgres  *)
(* (pkg/backup/postgres.go), one statement after the other.  A failure of  *)
(* a system call, of the object store or of psql is a choice at the step.  *)

ArtifactB == <<"b">>
ObjectK == <<"o", "/", "k">>
TempDownloadDir == <<"w">>

\* --file and --from-cloud values tried: absent, a plain name, a name with
\* the .encrypted marker
RestoreFiles == {<<>>, ArtifactB, ArtifactB \o EncSuffix}
RestoreObjects == {<<>>, ObjectK, ObjectK \o EncSuffix}

\* what the operator types at the prompt: the bytes on standard input
Answers ==
    {<<"y", "e", "s", "\n">>,
     <<" ", "Y", "E", "S", " ", "\n">>,
     <<"y", "\n">>,
     <<"n", "o", "\n">>,
     <<"y", "e", "s">>,
     <<>>}

RestoreInputs ==
    [file : RestoreFiles, fromCloud : RestoreObjects, cloudFlags : BOOLEAN,
     yes : BOOLEAN, answer : Answers, content : {"tar.gz", "envelope"}]

\* bufio.Reader.ReadString('\n'): the input up to and with the first newline;
\* an input that ends before a newline is returned with an error
ReadString(input) ==
    LET at == {i \in 1..Len(input) : input[i] = "\n"}
    IN  IF at = {} THEN [line |-> input, err |-> TRUE]
        ELSE [line |-> Take(input, CHOOSE i \in at : \A j \in at : i <= j), err |-> FALSE]

\* strings.ToLower, for the letters an answer is made of
ToLower(s) ==
    [i \in 1..Len(s) |->
        CASE s[i] = "Y" -> "y" [] s[i] = "E" -> "e" [] s[i] = "S" -> "s"
          [] s[i] = "N" -> "n" [] s[i] = "O" -> "o" [] OTHER -> s[i]]

IsSpace(c) == c \in {" ", "\n", "\t", "\r"}

\* strings.TrimSpace
RECURSIVE TrimSpace(_)
TrimSpace(s) ==
    IF s = <<>> THEN s
    ELSE IF IsSpace(Head(s)) THEN TrimSpace(Tail(s))
    ELSE IF IsSpace(s[Len(s)]) THEN TrimSpace(Take(s, Len(s) - 1))
    ELSE s

\* a prompt that takes every answer for a yes
Confirmed_Any(response) == TRUE

\* runRestore: response is "yes" or "y"
Confirmed(response) == response \in {<<"y", "e", "s">>, <<"y">>}

\* runRestore: "Validate flags", with both sources given taken as --file
ValidateFlags_PreferFile(c) ==
    IF c.file = <<>> /\ c.fromCloud = <<>>
    THEN "either --file or --from-cloud must be specified"
    ELSE IF c.file = <<>> /\ c.fromCloud # <<>> /\ ~c.cloudFlags
    THEN "--bucket and --compartment are required when using --from-cloud"
    ELSE ""

\* runRestore: "Validate flags"; "" when the flags pass
ValidateFlags(c) ==
    IF c.file = <<>> /\ c.fromCloud = <<>>
    THEN "either --file or --from-cloud must be specified"
    ELSE IF c.file # <<>> /\ c.fromCloud # <<>>
    THEN "cannot specify both --file and --from-cloud"
    ELSE IF c.fromCloud # <<>> /\ ~c.cloudFlags
    THEN "--bucket and --compartment are required when using --from-cloud"
    ELSE ""

\* no deferred call at all
Deferred_None(t, removedDownload, removedExtract) == t

\* the deferred os.RemoveAll calls on the way out of RestorePostgres and of
\* runRestore: each directory that was created is removed, or the removal
\* fails and the directory stays
Deferred(t, removedDownload, removedExtract) ==
    [download |-> IF t.download = "present" /\ removedDownload THEN "removed" ELSE t.download,
     extract |-> IF t.extract = "present" /\ removedExtract THEN "removed" ELSE t.extract,
     downloadRemoveAll |-> t.downloadRemoveAll \/ t.download = "present",
     extractRemoveAll |-> t.extractRemoveAll \/ t.extract = "present"]

RDid(step, ok) == Append(rtrace, [step |-> step, ok |-> ok])
RSteps == {rtrace[i].step : i \in 1..Len(rtrace)}

\* runRestore returns e after step
RReturns(step, ok, e) ==
    /\ rpc' = "returned"
    /\ rret' = e
    /\ rtrace' = RDid(step, ok)
    /\ \E removedDownload, removedExtract \in BOOLEAN :
        temp' = Deferred(temp, removedDownload, removedExtract)
    /\ UNCHANGED <<rcfg, backupFilePath>>

\* step succeeded, the run goes on at next
RGoes(step, next) ==
    /\ rpc' = next
    /\ rtrace' = RDid(step, TRUE)
    /\ UNCHANGED <<rcfg, rret>>

RestoreInit ==
    /\ rcfg \in RestoreInputs
    /\ rpc = "start"
    /\ temp = NoTemp
    /\ backupFilePath = <<>>
    /\ rret = NoError
    /\ rtrace = <<>>
    /\ IdleExceptRestore

\* runRestore: flag validation
RestoreValidate ==
    /\ rpc = "start"
    /\ IF ValidateFlags(rcfg) # ""
       THEN RReturns("validate", FALSE, Err(ValidateFlags(rcfg)))
       ELSE /\ RGoes("validate", IF rcfg.fromCloud # <<>> THEN "client" ELSE "stat")
            /\ UNCHANGED <<temp, backupFilePath>>
    /\ UNCHANGED exceptRestore

\* runRestore: oracle.NewClient
RestoreNewClient ==
    /\ rpc = "client"
    /\ \/ RReturns("client", FALSE, Err("failed to initialize Oracle Cloud client"))
       \/ RGoes("client", "mkdtemp") /\ UNCHANGED <<temp, backupFilePath>>
    /\ UNCHANGED exceptRestore

\* runRestore: os.MkdirTemp and the deferred os.RemoveAll
RestoreMkdirTemp ==
    /\ rpc = "mkdtemp"
    /\ \/ RReturns("mkdtemp", FALSE, Err("failed to create temp directory"))
       \/ /\ RGoes("mkdtemp", "download")
          /\ temp' = [temp EXCEPT !.download = "present"]
          /\ UNCHANGED backupFilePath
    /\ UNCHANGED exceptRestore

\* runRestore: download of the object into the temporary directory
RestoreDownload ==
    /\ rpc = "download"
    /\ \/ RReturns("download", FALSE, Err("failed to download backup"))
       \/ /\ RGoes("download", "confirm")
          /\ backupFilePath' = Join(TempDownloadDir, Base(rcfg.fromCloud))
          /\ UNCHANGED temp
    /\ UNCHANGED exceptRestore

\* runRestore: the local file is looked up
RestoreStat ==
    /\ rpc = "stat"
    /\ \/ RReturns("stat", FALSE, Err("backup file not found"))
       \/ /\ RGoes("stat", "confirm")
          /\ backupFilePath' = rcfg.file
          /\ UNCHANGED temp
    /\ UNCHANGED exceptRestore

\* runRestore: confirmation prompt
RestoreConfirm ==
    /\ rpc = "confirm"
    /\ LET read == ReadString(rcfg.answer)
           response == TrimSpace(ToLower(read.line))
       IN  IF rcfg.yes
           THEN RGoes("confirm", "rp.mkdtemp") /\ UNCHANGED <<temp, backupFilePath>>
           ELSE IF read.err
           THEN RReturns("confirm", FALSE, Err("failed to read confirmation"))
           ELSE IF Confirmed(response)
           THEN RGoes("confirm", "rp.mkdtemp") /\ UNCHANGED <<temp, backupFilePath>>
           ELSE RReturns("confirm", FALSE, Ok)
    /\ UNCHANGED exceptRestore

\* RestorePostgres: os.MkdirTemp and the deferred os.RemoveAll
RpMkdirTemp ==
    /\ rpc = "rp.mkdtemp"
    /\ \/ RReturns("rp.mkdtemp", FALSE, Err("restore failed: failed to create temp directory"))
       \/ /\ RGoes("rp.mkdtemp", "rp.extract")
          /\ temp' = [temp EXCEPT !.extract = "present"]
          /\ UNCHANGED backupFilePath
    /\ UNCHANGED exceptRestore

\* RestorePostgres: extractTarGz(backupFile, tempDir); a file that holds an
\* encryption envelope is not a gzip stream
RpExtract ==
    /\ rpc = "rp.extract"
    /\ \/ RReturns("rp.extract", FALSE, Err("restore failed: extraction failed"))
       \/ /\ rcfg.content = "tar.gz"
          /\ RGoes("rp.extract", "rp.psql")
          /\ UNCHANGED <<temp, backupFilePath>>
    /\ UNCHANGED exceptRestore

\* RestorePostgres: runPsqlRestore, then back in runRestore the downloaded
\* file is removed and the run returns
RpPsql ==
    /\ rpc = "rp.psql"
    /\ \/ RReturns("rp.psql", FALSE, Err("restore failed: restore failed"))
       \/ RReturns("rp.psql", TRUE, Ok)
    /\ UNCHANGED exceptRestore

RestoreNext ==
    \/ RestoreValidate
    \/ RestoreNewClient
    \/ RestoreMkdirTemp
    \/ RestoreDownload
    \/ RestoreStat
    \/ RestoreConfirm
    \/ RpMkdirTemp
    \/ RpExtract
    \/ RpPsql

SpecRestore == RestoreInit /\ [][RestoreNext]_vars

-----------------------------------------------------------------------------
(* Properties of the restore command.                                      *)

RReturned == rpc = "returned"

HasSuffix(s, suffix) ==
    Len(s) >= Len(suffix) /\ Drop(s, Len(s) - Len(suffix)) = suffix

\* the artifact of the run carries the .encrypted marker
Marked ==
    \/ rcfg.file # <<>> /\ HasSuffix(rcfg.file, EncSuffix)
    \/ rcfg.file = <<>> /\ HasSuffix(rcfg.fromCloud, EncSuffix)

\* C18: in a restore run whose artifact path ends with .encrypted,
\* extraction is attempted only after a decryption step that succeeded; a
\* run without a decryption step never reaches extraction or psql.
Cex_C18_DecryptBeforeExtract ==
    Marked
    => \A i \in 1..Len(rtrace) :
           rtrace[i].step \in {"rp.extract", "rp.psql"}
           => \E j \in 1..(i - 1) : rtrace[j] = [step |-> "decrypt", ok |-> TRUE]

\* C19: when the run has returned, every temporary directory it created --
\* the extraction directory of RestorePostgres and the download directory of
\* the from-cloud path -- has had os.RemoveAll called on it.
Thm_C19_TempDirsRemoved ==
    RReturned
    => /\ temp.extract # "none" => temp.extractRemoveAll
       /\ temp.download # "none" => temp.downloadRemoveAll

\* C19 witness: a from-cloud restore that the operator declined: the
\* download directory was created and has been removed.
Wit_C19_TempDirsRemoved ==
    /\ RReturned
    /\ rret = Ok
    /\ rtrace[Len(rtrace)] = [step |-> "confirm", ok |-> FALSE]
    /\ temp.download = "removed" /\ temp.downloadRemoveAll

\* the run was given both --file and --from-cloud, or neither
BothOrNeither == (rcfg.file = <<>>) <=> (rcfg.fromCloud = <<>>)

\* C20: given both a local file and a from-cloud object, or neither, the
\* restore command fails at validation: no step other than the validation
\* ever runs, no temporary directory is created, and the run returns the
\* validation error.
Thm_C20_FileXorCloud ==
    (rpc # "idle" /\ BothOrNeither)
    => /\ RSteps \subseteq {"validate"}
       /\ temp = NoTemp
       /\ rpc \in {"start", "returned"}
       /\ RReturned
          => /\ rtrace = <<[step |-> "validate", ok |-> FALSE]>>
             /\ rret = IF rcfg.file = <<>>
                       THEN Err("either --file or --from-cloud must be specified")
                       ELSE Err("cannot specify both --file and --from-cloud")

\* C20 witness: both flags given with --yes: the run has returned the error.
Wit_C20_FileXorCloud ==
    /\ RReturned
    /\ rcfg.file # <<>> /\ rcfg.fromCloud # <<>> /\ rcfg.cloudFlags /\ rcfg.yes
    /\ rret = Err("cannot specify both --file and --from-cloud")

\* the answers that are a yes: "yes" or "y" in any case, with blanks around,
\* ended by a newline
Accepted == rcfg.answer \in {<<"y", "e", "s", "\n">>, <<" ", "Y", "E", "S", " ", "\n">>, <<"y", "\n">>}

\* C21: extraction and psql run only if --yes was given or the operator
\* answered yes or y (any case, blanks trimmed); such a run passes the prompt,
\* and a run with any other answer ends at the prompt with nothing extracted
\* and psql not invoked.
Thm_C21_ConfirmBeforeRestore ==
    /\ (RSteps \cap {"rp.mkdtemp", "rp.extract", "rp.psql"} # {}) => (rcfg.yes \/ Accepted)
    /\ \A i \in 1..Len(rtrace) :
          rtrace[i].step = "confirm"
          => /\ rtrace[i].ok <=> (rcfg.yes \/ Accepted)
             /\ ~rtrace[i].ok => (i = Len(rtrace) /\ RReturned /\ temp.extract = "none")

\* C21 witness: no --yes, the operator typed " YES ": psql has run.
Wit_C21_ConfirmBeforeRestore ==
    /\ RReturned
    /\ ~rcfg.yes /\ rcfg.answer = <<" ", "Y", "E", "S", " ", "\n">>
    /\ rtrace[Len(rtrace)] = [step |-> "rp.psql", ok |-> TRUE]

-----------------------------------------------------------------------------
(* The metrics server: the health record of the serving process and the    *)
(* /health endpoint.  Time is counted in whole hours; the zero time of Go  *)
(* is hour 0 and the process starts at hour 1.                             *)

MaxHours == 28

MaxRecords == 3

DegradedAfter == 25

ResetHealth(h) ==
    [LastBackupTime |-> 0, LastBackupError |-> "", BackupCount |-> 0, IsHealthy |-> TRUE]

GetHealth(h) ==
    [LastBackupTime |-> h.LastBackupTime, LastBackupError |-> h.LastBackupError,
     BackupCount |-> h.BackupCount, IsHealthy |-> h.IsHealthy]

handleHealth_IgnoreFlag(h, now) ==
    IF h.LastBackupTime # 0 /\ now - h.LastBackupTime > DegradedAfter
    THEN [status |-> "degraded", httpStatus |-> 200]
    ELSE [status |-> "healthy", httpStatus |-> 200]

handleHealth(h, now) ==
    LET got == GetHealth(h) IN
    IF ~got.IsHealthy
    THEN [status |-> "unhealthy", httpStatus |-> 503]
    ELSE IF got.LastBackupTime # 0 /\ now - got.LastBackupTime > DegradedAfter
         THEN [status |-> "degraded", httpStatus |-> 200]
         ELSE [status |-> "healthy", httpStatus |-> 200]

Records == recorded.errors + served.BackupCount

HealthInit ==
    /\ IdleExceptHealth
    /\ served = InitialHealth
    /\ wall = 1
    /\ recorded = NoHistory
    /\ reply = NoReply

Pass ==
    /\ wall < MaxHours
    /\ wall' = wall + 1
    /\ reply' = NoReply
    /\ UNCHANGED <<served, recorded, exceptHealth>>

ServeRecordSuccess ==
    /\ Records < MaxRecords
    /\ served' = RecordBackupSuccess(served, wall)
    /\ recorded' = [recorded EXCEPT !.last = "success", !.successAt = wall,
                                    !.resetSince = FALSE]
    /\ reply' = NoReply
    /\ UNCHANGED <<wall, exceptHealth>>

ServeRecordError ==
    /\ Records < MaxRecords
    /\ served' = RecordBackupError(served, wall, "backup failed")
    /\ recorded' = [recorded EXCEPT !.last = "error", !.errors = @ + 1,
                                    !.resetSince = FALSE]
    /\ reply' = NoReply
    /\ UNCHANGED <<wall, exceptHealth>>

ServeResetHealth ==
    /\ recorded.last # "none"
    /\ ~recorded.resetSince
    /\ served' = ResetHealth(served)
    /\ recorded' = [recorded EXCEPT !.resetSince = TRUE]
    /\ reply' = NoReply
    /\ UNCHANGED <<wall, exceptHealth>>

ServeHealth ==
    /\ reply' = handleHealth(served, wall)
    /\ UNCHANGED <<served, wall, recorded, exceptHealth>>

HealthNext ==
    \/ Pass
    \/ ServeRecordSuccess
    \/ ServeRecordError
    \/ ServeResetHealth
    \/ ServeHealth

SpecHealth == HealthInit /\ [][HealthNext]_vars

Asked == reply.status # "none"

\* C22: when the last recorded backup outcome is a failure, /health answers
\* "unhealthy" with 503, at whatever hour it is asked; when a success has just
\* been recorded (in the same hour), it answers "healthy" with 200.  Outcomes
\* are what RecordBackupSuccess and RecordBackupError recorded; a ResetHealth
\* after the last outcome is outside the statement.
Thm_C22_UnhealthyUntilSuccess ==
    (Asked /\ ~recorded.resetSince) =>
        /\ recorded.last = "error" =>
               reply = [status |-> "unhealthy", httpStatus |-> 503]
        /\ (recorded.last = "success" /\ recorded.successAt = wall) =>
               reply = [status |-> "healthy", httpStatus |-> 200]

\* C22 witness: a failure was recorded, then a success, and /health asked at
\* once answered "healthy".
Wit_C22_UnhealthyUntilSuccess ==
    /\ Asked
    /\ recorded.errors > 0
    /\ recorded.last = "success"
    /\ recorded.successAt = wall
    /\ ~recorded.resetSince
    /\ reply.status = "healthy"

\* C22, the other case reached: a failure recorded hours ago and not followed
\* by a success is still answered "unhealthy".
StillUnhealthy ==
    /\ Asked
    /\ recorded.last = "error"
    /\ wall - served.LastBackupTime > DegradedAfter
    /\ reply.httpStatus = 503

SuccessWithin25Hours ==
    recorded.successAt # 0 /\ wall - recorded.successAt <= DegradedAfter

\* C23: /health answers "degraded" exactly when the last recorded outcome is
\* not a failure and no success was recorded within the preceding 25 hours,
\* and answers "healthy" whenever a success was recorded within the last 25
\* hours and nothing failed since.
Cex_C23_DegradedWhenStale ==
    Asked =>
        /\ reply.status = "degraded" <=>
               (recorded.last # "error" /\ ~SuccessWithin25Hours)
        /\ (recorded.last = "success" /\ SuccessWithin25Hours) =>
               reply.status = "healthy"

-----------------------------------------------------------------------------
(* pg_dump and psql as subprocesses: the argument list and the environment *)
(* that runPgDump and runPsqlRestore hand to exec.Command.                 *)

\* the text "PGPASSWORD="
PGPASSWORD == <<"P", "G", "P", "A", "S", "S", "W", "O", "R", "D", "=">>

\* os.Environ() followed by the append of PGPASSWORD=<password>
SubprocessEnv(config, env) ==
    IF config.Password # <<>> THEN Append(env, PGPASSWORD \o config.Password) ELSE env

\* runPgDump with the password passed through os.Setenv and a -W argument
runPgDump_OnCommandLine(config, outputPath, env) ==
    [cmd |-> [name |-> "pg_dump",
              args |-> <<<<"-h">>, config.Host, <<"-W">>, config.Password>>,
              env |-> SubprocessEnv(config, env)],
     environ |-> SubprocessEnv(config, env)]

\* runPgDump: the command it runs, and the process environment it leaves
runPgDump(config, outputPath, env) ==
    [cmd |-> [name |-> "pg_dump",
              args |-> << <<"-h">>, config.Host,
                          <<"-p">>, Itoa(config.Port),
                          <<"-U">>, config.User,
                          <<"-d">>, config.Database,
                          <<"-f">>, outputPath,
                          <<"-", "-", "v", "e", "r", "b", "o", "s", "e">>,
                          <<"-", "-", "f", "o", "r", "m", "a", "t", "=", "p", "l", "a", "i", "n">> >>,
              env |-> SubprocessEnv(config, env)],
     environ |-> env]

\* runPsqlRestore: the command it runs, and the process environment it leaves
runPsqlRestore(config, sqlFilePath, env) ==
    [cmd |-> [name |-> "psql",
              args |-> << <<"-h">>, config.Host,
                          <<"-p">>, Itoa(config.Port),
                          <<"-U">>, config.User,
                          <<"-d">>, config.Database,
                          <<"-f">>, sqlFilePath,
                          <<"-", "-", "e", "c", "h", "o", "-", "e", "r", "r", "o", "r", "s">> >>,
              env |-> SubprocessEnv(config, env)],
     environ |-> env]

\* what a process started with the list env reads for the text key (ending
\* in "="): of several entries for one key the last one counts
RECURSIVE Getenv(_, _)
Getenv(env, key) ==
    IF env = <<>> THEN <<>>
    ELSE LET e == env[Len(env)] IN
         IF HasPrefix(e, key) THEN SubSeq(e, Len(key) + 1, Len(e))
         ELSE Getenv(SubSeq(env, 1, Len(env) - 1), key)

DbPasswords == {<<>>, <<"s">>, <<"t", "=", "1">>}

PgConfigs ==
    [Host : {<<"h">>}, Port : {5432, 5433}, User : {<<"u">>, <<"s">>},
     Database : {<<"d">>}, Password : DbPasswords]

HomeEntry == <<"H", "O", "M", "E", "=", "/">>

Environs ==
    {<<>>, <<HomeEntry>>, <<PGPASSWORD \o <<"o">>>>, <<PGPASSWORD \o <<"o">>, HomeEntry>>}

DumpFilePath == <<"b", ".", "s", "q", "l">>

ProcInit ==
    /\ IdleExceptProc
    /\ environ \in Environs
    /\ pgcfg \in PgConfigs
    /\ spawned = NoCmd

CallRunPgDump ==
    LET r == runPgDump(pgcfg, DumpFilePath, environ) IN
    /\ spawned' = [name |-> r.cmd.name, args |-> r.cmd.args, env |-> r.cmd.env,
                    parent |-> environ]
    /\ environ' = r.environ
    /\ UNCHANGED <<pgcfg, exceptProc>>

CallRunPsqlRestore ==
    LET r == runPsqlRestore(pgcfg, DumpFilePath, environ) IN
    /\ spawned' = [name |-> r.cmd.name, args |-> r.cmd.args, env |-> r.cmd.env,
                    parent |-> environ]
    /\ environ' = r.environ
    /\ UNCHANGED <<pgcfg, exceptProc>>

ProcNext ==
    \/ CallRunPgDump
    \/ CallRunPsqlRestore

SpecProc == ProcInit /\ [][ProcNext]_vars

Ran == spawned.name # "none"

\* the argument list the tool of the last command gets for config
ArgsFor(config) ==
    IF spawned.name = "pg_dump"
    THEN runPgDump(config, DumpFilePath, spawned.parent).cmd.args
    ELSE runPsqlRestore(config, DumpFilePath, spawned.parent).cmd.args

\* C24: whenever pg_dump or psql has been run, (1) its argument list does not
\* depend on the password: it is the list any other password would give, and
\* no argument is the PGPASSWORD text; (2) with a non-empty password the
\* subprocess environment is the parent's followed by the one entry
\* PGPASSWORD=<password>, which is what the subprocess reads for PGPASSWORD,
\* and with an empty password it is the parent's; (3) the parent's own
\* environment is what it was before the call.
Thm_C24_PasswordOnlyInEnv ==
    Ran =>
        /\ \A q \in DbPasswords : spawned.args = ArgsFor([pgcfg EXCEPT !.Password = q])
        /\ \A i \in 1..Len(spawned.args) : ~HasPrefix(spawned.args[i], PGPASSWORD)
        /\ pgcfg.Password # <<>> =>
               /\ spawned.env = Append(spawned.parent, PGPASSWORD \o pgcfg.Password)
               /\ Getenv(spawned.env, PGPASSWORD) = pgcfg.Password
        /\ pgcfg.Password = <<>> => spawned.env = spawned.parent
        /\ environ = spawned.parent

\* C24 witness: psql was run with a non-empty password by a process whose
\* own environment already had another PGPASSWORD.
Wit_C24_PasswordOnlyInEnv ==
    /\ Ran
    /\ spawned.name = "psql"
    /\ pgcfg.Password = <<"s">>
    /\ Getenv(environ, PGPASSWORD) = <<"o">>
    /\ Getenv(spawned.env, PGPASSWORD) = <<"s">>

-----------------------------------------------------------------------------
(* The order of the steps of a backup run, read off its trace.             *)

StartSteps == {"start", "pg.start", "pg.mkdir", "fb.start", "fb.mkdir"}
ProducingSteps == {"pg.dump", "pg.statdump", "fb.count"}
ArchivingSteps == {"pg.compress", "pg.stattar", "pg.rmdump", "fb.create", "fb.walk", "fb.stat"}
EncryptingSteps == {"encrypt"}

\* the steps of the pipeline; the report of the outcome and the removal of
\* the plaintext archive (whose failure is a warning) are not among them
PipelineSteps == StartSteps \cup ProducingSteps \cup ArchivingSteps \cup EncryptingSteps

PhaseRank(step) ==
    CASE step \in StartSteps -> 1
      [] step \in ProducingSteps -> 2
      [] step \in ArchivingSteps -> 3
      [] step \in EncryptingSteps -> 4
      [] OTHER -> 0

\* step ran before position j of the trace and succeeded
DoneBefore(step, j) == \E i \in 1..(j - 1) : trace[i] = [step |-> step, ok |-> TRUE]

LastProducing == IF cfg.type = "postgres" THEN "pg.statdump" ELSE "fb.count"
LastArchiving == IF cfg.type = "postgres" THEN "pg.rmdump" ELSE "fb.stat"

ArchivingFailedRunEnded ==
    /\ Failed
    /\ cfg.encrypt
    /\ \E i \in 1..Len(trace) : trace[i] = [step |-> "pg.compress", ok |-> FALSE]
    /\ "encrypt" \notin Steps

-----------------------------------------------------------------------------
(* The dump file and the artifact of a database backup.                    *)

\* pg_dump wrote the dump and the run has deleted it since
DumpDeleted ==
    /\ \E i \in 1..Len(trace) : trace[i] = [step |-> "pg.dump", ok |-> TRUE]
    /\ disk.dump = "absent"

ArtifactStatted == \E i \in 1..Len(trace) : trace[i] = [step |-> "pg.stattar", ok |-> TRUE]

\* C26: in a database backup run, (1) the dump is deleted only once the
\* archive is completely written and has been statted; (2) after a successful
\* run the dump is gone and the artifact exists; (3) never has a run reported
\* success with the dump deleted and no complete artifact.
Cex_C26_DumpDeletedAfterArtifact ==
    cfg.type = "postgres" =>
        /\ DumpDeleted => (disk.tar = "complete" /\ ArtifactStatted)
        /\ Succeeded => (disk.dump = "absent" /\ (disk.tar # "absent" \/ disk.enc # "absent"))
        /\ ~(Succeeded /\ DumpDeleted /\ disk.tar # "complete" /\ disk.enc = "absent")

\* C26, the run that reports success with a truncated archive: compressTarGz
\* returned nil although a deferred Close failed, the archive was statted,
\* the dump deleted.
SuccessWithTruncatedArchive ==
    /\ cfg.type = "postgres"
    /\ ~cfg.encrypt
    /\ Succeeded
    /\ DumpDeleted
    /\ ArtifactStatted
    /\ disk.tar = "partial"

\* C26, the run that reports success with the dump still on disk: the error
\* of os.Remove(dumpFilePath) is dropped.
SuccessWithDumpLeft ==
    /\ cfg.type = "postgres"
    /\ Succeeded
    /\ disk.dump = "complete"

-----------------------------------------------------------------------------
(* What a failed backup command has recorded.                              *)

\* C28: when the backup command has returned an error, the success counter
\* was not incremented for the run, RecordBackupSuccess was not applied, and
\* the health record does not show the run as the last successful backup.
Cex_C28_FailedRunRecordsNoSuccess ==
    Failed =>
        /\ metrics.success = 0
        /\ health.BackupCount = 0
        /\ ~(health.IsHealthy /\ health.LastBackupTime = Now)

\* C28, the failing run by another cause than the missing key: EncryptFile
\* failed after the archive was written and the success recorded.
EncryptionFailedAfterSuccessRecorded ==
    /\ Failed
    /\ encryptionKey # <<>>
    /\ \E i \in 1..Len(trace) : trace[i] = [step |-> "encrypt", ok |-> FALSE]
    /\ metrics.success = 1
    /\ metrics.encryption_failed = 1
    /\ health = RecordBackupSuccess(InitialHealth, Now)

-----------------------------------------------------------------------------
(* The health record under concurrent calls: every statement of             *)
(* RecordBackupSuccess, RecordBackupError, ResetHealth and GetHealth is a   *)
(* step of its goroutine.                                                   *)

Goroutines == {1, 2, 3}

Fields == <<"LastBackupTime", "LastBackupError", "BackupCount", "IsHealthy">>

\* sync.RWMutex with Lock and RLock that never wait
CanLock_Never_Waits(m) == TRUE

\* sync.RWMutex: Lock waits for the writer and the readers, RLock for the writer
CanLock(m) == m.writer = 0 /\ m.readers = {}

CanRLock(m) == CanLock(m) \/ (m.writer = 0 /\ m.readers # {})

\* the statements of each function between taking and releasing the lock
Body(op) ==
    CASE op = "RecordBackupSuccess" ->
             <<"time.Now", "LastBackupError", "BackupCount.load", "BackupCount.store", "IsHealthy">>
      [] op = "RecordBackupError" -> <<"time.Now", "LastBackupError", "IsHealthy">>
      [] op = "ResetHealth" -> <<"LastBackupTime", "LastBackupError", "BackupCount", "IsHealthy">>
      [] op = "GetHealth" -> Fields

Updates == {"RecordBackupSuccess", "RecordBackupError", "ResetHealth"}

\* the assignment that statement stmt of op makes to the record h
Store(h, op, stmt, c) ==
    CASE stmt = "time.Now" -> [h EXCEPT !.LastBackupTime = c.at]
      [] stmt = "LastBackupTime" -> [h EXCEPT !.LastBackupTime = 0]
      [] stmt = "LastBackupError" ->
             [h EXCEPT !.LastBackupError = IF op = "RecordBackupError" THEN "backup failed" ELSE ""]
      [] stmt = "BackupCount.load" -> h
      [] stmt = "BackupCount.store" -> [h EXCEPT !.BackupCount = c.count + 1]
      [] stmt = "BackupCount" -> [h EXCEPT !.BackupCount = 0]
      [] stmt = "IsHealthy" -> [h EXCEPT !.IsHealthy = (op # "RecordBackupError")]

\* the update op applied in one piece
Applied(h, op, at) ==
    CASE op = "RecordBackupSuccess" -> RecordBackupSuccess(h, at)
      [] op = "RecordBackupError" -> RecordBackupError(h, at, "backup failed")
      [] op = "ResetHealth" -> ResetHealth(h)

ConcInit ==
    /\ IdleExceptConc
    /\ shared = InitialHealth
    /\ mu = Unlocked
    /\ calls = [g \in Goroutines |-> NotCalled]
    /\ hist = [NoUpdates EXCEPT !.now = 1, !.left = {InitialHealth}]

\* a goroutine enters one of the four functions
Invoke(g) ==
    /\ calls[g].op = "none"
    /\ \E op \in Updates \cup {"GetHealth"} :
        calls' = [calls EXCEPT ![g] = [NotCalled EXCEPT !.op = op, !.pc = 1]]
    /\ UNCHANGED <<shared, mu, hist, exceptConc>>

\* globalHealth.mu.Lock()
AcquireLock(g) ==
    /\ calls[g].op \in Updates
    /\ calls[g].pc = 1
    /\ CanLock(mu)
    /\ mu' = [mu EXCEPT !.writer = g]
    /\ calls' = [calls EXCEPT ![g].pc = 2]
    /\ UNCHANGED <<shared, hist, exceptConc>>

\* globalHealth.mu.RLock()
AcquireRLock(g) ==
    /\ calls[g].op = "GetHealth"
    /\ calls[g].pc = 1
    /\ CanRLock(mu)
    /\ mu' = [mu EXCEPT !.readers = @ \cup {g}]
    /\ calls' = [calls EXCEPT ![g].pc = 2]
    /\ UNCHANGED <<shared, hist, exceptConc>>

\* one statement of an update
Statement(g) ==
    LET c == calls[g]
        body == Body(c.op)
    IN  /\ c.op \in Updates
        /\ c.pc \in 2..(Len(body) + 1)
        /\ LET stmt == body[c.pc - 1]
               c1 == IF stmt = "time.Now" THEN [c EXCEPT !.at = hist.now]
                     ELSE IF stmt = "BackupCount.load" THEN [c EXCEPT !.count = shared.BackupCount]
                     ELSE c
           IN  /\ shared' = Store(shared, c.op, stmt, c1)
               /\ calls' = [calls EXCEPT ![g] = [c1 EXCEPT !.pc = c.pc + 1]]
               /\ hist' = IF stmt = "time.Now" THEN [hist EXCEPT !.now = @ + 1] ELSE hist
        /\ UNCHANGED <<mu, exceptConc>>

\* one field of the literal that GetHealth returns
Load(g) ==
    LET c == calls[g] IN
    /\ c.op = "GetHealth"
    /\ c.pc \in 2..(Len(Fields) + 1)
    /\ calls' = [calls EXCEPT ![g].snap[Fields[c.pc - 1]] = shared[Fields[c.pc - 1]],
                              ![g].pc = c.pc + 1]
    /\ UNCHANGED <<shared, mu, hist, exceptConc>>

\* the deferred globalHealth.mu.Unlock() and the return
Release(g) ==
    LET c == calls[g] IN
    /\ c.op \in Updates
    /\ c.pc = Len(Body(c.op)) + 2
    /\ mu' = [mu EXCEPT !.writer = IF @ = g THEN 0 ELSE @]
    /\ calls' = [calls EXCEPT ![g].pc = 0, ![g].op = "returned " \o c.op]
    /\ hist' = LET next == Applied(hist.last, c.op, c.at) IN
               [hist EXCEPT !.last = next,
                            !.left = @ \cup {next},
                            !.successes = IF c.op = "RecordBackupSuccess" THEN @ + 1 ELSE @,
                            !.resets = IF c.op = "ResetHealth" THEN @ + 1 ELSE @]
    /\ UNCHANGED <<shared, exceptConc>>

\* the deferred globalHealth.mu.RUnlock() and the return of the snapshot
ReleaseRLock(g) ==
    LET c == calls[g] IN
    /\ c.op = "GetHealth"
    /\ c.pc = Len(Fields) + 2
    /\ mu' = [mu EXCEPT !.readers = @ \ {g}]
    /\ calls' = [calls EXCEPT ![g].pc = 0, ![g].op = "returned GetHealth"]
    /\ UNCHANGED <<shared, hist, exceptConc>>

ConcNext ==
    \E g \in Goroutines :
        \/ Invoke(g)
        \/ AcquireLock(g)
        \/ AcquireRLock(g)
        \/ Statement(g)
        \/ Load(g)
        \/ Release(g)
        \/ ReleaseRLock(g)

SpecConc == ConcInit /\ [][ConcNext]_vars

Updating == \E g \in Goroutines : calls[g].op \in Updates /\ calls[g].pc > 1

Snapshots == {calls[g].snap : g \in {h \in Goroutines : calls[h].op = "returned GetHealth"}}

\* C27: under every interleaving of the four functions, (1) whenever no
\* update is in progress the record is what the completed updates give when
\* applied one at a time in the order they took the lock, (2) so with n
\* successes completed and no reset BackupCount = n, and (3) every snapshot
\* that GetHealth returned is the initial record or the record as one
\* completed update left it.
Thm_C27_AtomicUpdates ==
    /\ ~Updating => shared = hist.last
    /\ (~Updating /\ hist.resets = 0) => shared.BackupCount = hist.successes
    /\ Snapshots \subseteq hist.left

\* C27 witness: two RecordBackupSuccess calls have completed, and a GetHealth
\* that ran between them has returned the record as the first one left it.
Wit_C27_AtomicUpdates ==
    /\ hist.successes = 2
    /\ hist.resets = 0
    /\ ~Updating
    /\ shared.BackupCount = 2
    /\ \E s \in Snapshots : s.BackupCount = 1

-----------------------------------------------------------------------------
(* The size of the archive that FileBackup.Backup reports.  Bytes written  *)
(* to the tar writer pass through the gzip writer, which hands compressed  *)
(* bytes to the file when it chooses to; what it still holds is written by *)
(* Close, together with the end of the archive and the gzip trailer.       *)

MaxWritten == 3

\* the bytes of CRC-32 and length that gzip.Writer.Close appends
GzipTrailer == 8

\* tarWriter.WriteHeader and io.Copy of one entry: c compressed bytes more in
\* the writers, of which the file gets k now
WriteEntry(f, c, k) ==
    [f EXCEPT !.size = @ + k, !.pending = f.pending + c - k, !.entries = @ + 1]

\* os.Stat(outputPath).Size()
StatSize(f) == f.size

\* the deferred tarWriter.Close, gzipWriter.Close and outFile.Close: the end
\* of archive (eoa compressed bytes), what the writers hold and the trailer
\* reach the file, unless writing fails, which nobody sees
CloseAll(f, eoa, ok) ==
    IF ok THEN [f EXCEPT !.size = @ + f.pending + eoa + GzipTrailer, !.pending = 0]
    ELSE [f EXCEPT !.pending = 0]

SizeInit ==
    /\ IdleExceptSize
    /\ outFile = NoOutFile
    /\ bstep = "create"
    /\ result = NoResult

\* os.Create(outputPath) and the three writers
BackupCreate ==
    /\ bstep = "create"
    /\ \E ok \in BOOLEAN :
        IF ok THEN /\ outFile' = [outFile EXCEPT !.exists = TRUE]
                   /\ bstep' = "walk"
                   /\ UNCHANGED result
        ELSE /\ result' = [NoResult EXCEPT !.err = "failed to create output file"]
             /\ bstep' = "returned"
             /\ UNCHANGED outFile
    /\ UNCHANGED exceptSize

\* one entry of the walk written to the archive
BackupWriteEntry ==
    /\ bstep = "walk"
    /\ outFile.entries < MaxWritten
    /\ \E c \in 1..2 : \E k \in 0..(outFile.pending + c) :
        outFile' = WriteEntry(outFile, c, k)
    /\ UNCHANGED <<bstep, result, exceptSize>>

\* the walk ends, with or without an error
BackupWalkEnds ==
    /\ bstep = "walk"
    /\ \E ok \in BOOLEAN, closed \in BOOLEAN :
        IF ok THEN bstep' = "stat" /\ UNCHANGED <<outFile, result>>
        ELSE /\ result' = [NoResult EXCEPT !.err = "failed to walk source"]
             /\ outFile' = CloseAll(outFile, 1, closed)
             /\ bstep' = "returned"
    /\ UNCHANGED exceptSize

\* os.Stat(outputPath), the Result, and the deferred Close calls at the return
BackupStatAndReturn ==
    /\ bstep = "stat"
    /\ \E ok \in BOOLEAN, closed \in BOOLEAN :
        /\ result' = IF ok THEN [NoResult EXCEPT !.Size = StatSize(outFile)]
                     ELSE [NoResult EXCEPT !.err = "failed to stat output file"]
        /\ outFile' = CloseAll(outFile, 1, closed)
    /\ bstep' = "returned"
    /\ UNCHANGED exceptSize

SizeNext ==
    \/ BackupCreate
    \/ BackupWriteEntry
    \/ BackupWalkEnds
    \/ BackupStatAndReturn

SpecSize == SizeInit /\ [][SizeNext]_vars

BackupSucceeded == bstep = "returned" /\ result.err = "none"

\* C29: when FileBackup.Backup has returned a result, the Size in it is the
\* size of the archive on disk.
Cex_C29_SizeAfterClose ==
    BackupSucceeded => result.Size = outFile.size

\* C29, the run in which every Close succeeded: the file on disk is longer
\* than the Size reported, by what the writers held plus the end of archive
\* and the trailer.
ReportedShort ==
    /\ BackupSucceeded
    /\ outFile.entries = 2
    /\ result.Size = 1
    /\ outFile.size > result.Size + GzipTrailer

-----------------------------------------------------------------------------
(* Where extractTarGz writes.                                              *)

\* path names a file directly in dir: dir, a separator, and one element that
\* is neither "." nor ".."
DirectChild(path, dir) ==
    LET name == Drop(path, Len(dir) + 1) IN
    /\ Len(path) > Len(dir) + 1
    /\ Take(path, Len(dir) + 1) = dir \o <<Sep>>
    /\ \A i \in 1..Len(name) : name[i] # Sep
    /\ name \notin {<<".">>, <<".", ".">>}

Hostile == {i \in 1..Len(tgz.entries) : tgz.entries[i].name \in HostileNames}

\* C30: whatever the names of the entries, every file that exists after
\* extractTarGz into the (empty) destination directory is a direct child of
\* that directory, whether the call returned a path or an error.
Thm_C30_WritesInsideDestDir ==
    xres.extract = "done" => \A p \in DOMAIN dest : DirectChild(p, DestDir)

\* C30 witness: an archive with the entries /s and ../q was extracted without
\* error, into x/s and x/q.
Wit_C30_WritesInsideDestDir ==
    /\ xres.extract = "done" /\ xres.err = ""
    /\ Len(tgz.entries) = 2
    /\ tgz.entries[1].name = <<"/", "s">>
    /\ tgz.entries[2].name = <<".", ".", "/", "q">>
    /\ DOMAIN dest = {<<"x", "/", "s">>, <<"x", "/", "q">>}

\* C30, the other case reached: the entry ".." names the directory above the
\* destination; creating it fails and nothing is written.
DotDotRefused ==
    /\ xres.extract = "done"
    /\ xres.fault = "none"
    /\ Len(tgz.entries) = 1
    /\ tgz.entries[1].name = <<".", ".">>
    /\ xres.err = "failed to create output file"
    /\ dest = <<>>

====
